---------------------------- MODULE Spec2Model ----------------------------
(***************************************************************************)
(* State-machine model of mcp2515-banged.c, the bit-banged MCP2515 CAN     *)
(* driver: the line transport, the register access layer, the frame codec, *)
(* the threaded interrupt handler and the open/stop/xmit/set-mode entry    *)
(* points, with the contexts the kernel runs them in.                      *)
(*                                                                         *)
(* Numbers are written in decimal; the comment after each gives the hex    *)
(* value of the C macro it is taken from.                                  *)
(***************************************************************************)
EXTENDS Integers, Naturals, Sequences, FiniteSets, TLC

(***************************************************************************)
(* Bounds of the model.                                                    *)
(***************************************************************************)
\* Stat events (counter increments) a behaviour may accumulate in total.
MaxStatEvents == 2
\* unsigned long is modelled modulo this (TLC's integers are 32-bit, so
\* 2^BITS_PER_LONG itself cannot be written).
UlongMod == 65536

(***************************************************************************)
(* SPI instruction set and register map (lines 57-177).                    *)
(***************************************************************************)
INSTRUCTION_WRITE      == 2      \* 0x02
INSTRUCTION_READ       == 3      \* 0x03
INSTRUCTION_BIT_MODIFY == 5      \* 0x05
INSTRUCTION_RESET      == 192    \* 0xC0
INSTRUCTION_LOAD_TXB(n) == 64 + 2 * n
INSTRUCTION_READ_RXB(n) == IF n = 0 THEN 144 ELSE 148
INSTRUCTION_RTS(n)      == 128 + (n % 8)

CANSTAT == 14                    \* 0x0e
CANCTRL == 15                    \* 0x0f
CANCTRL_REQOP_MASK        == 224 \* 0xe0
CANCTRL_REQOP_CONF        == 128 \* 0x80
CANCTRL_REQOP_LISTEN_ONLY == 96  \* 0x60
CANCTRL_REQOP_LOOPBACK    == 64  \* 0x40
CANCTRL_REQOP_SLEEP       == 32  \* 0x20
CANCTRL_REQOP_NORMAL      == 0
CNF1 == 42                       \* 0x2a
CNF1_SJW_SHIFT == 6
CNF2 == 41                       \* 0x29
CNF2_BTLMODE == 128              \* 0x80
CNF2_SAM == 64                   \* 0x40
CNF2_PS1_SHIFT == 3
CNF3 == 40                       \* 0x28
CNF3_PHSEG2_MASK == 7
CANINTE == 43                    \* 0x2b
CANINTE_ERRIE == 32
CANINTE_TX2IE == 16
CANINTE_TX1IE == 8
CANINTE_TX0IE == 4
CANINTE_RX1IE == 2
CANINTE_RX0IE == 1
CANINTF == 44                    \* 0x2c
CANINTF_MERRF == 128
CANINTF_WAKIF == 64
CANINTF_ERRIF == 32
CANINTF_TX2IF == 16
CANINTF_TX1IF == 8
CANINTF_TX0IF == 4
CANINTF_RX1IF == 2
CANINTF_RX0IF == 1
CANINTF_RX  == CANINTF_RX0IF + CANINTF_RX1IF
CANINTF_TX  == CANINTF_TX2IF + CANINTF_TX1IF + CANINTF_TX0IF
CANINTF_ERR == CANINTF_ERRIF
EFLG == 45                       \* 0x2d
EFLG_EWARN  == 1
EFLG_RXWAR  == 2
EFLG_TXWAR  == 4
EFLG_RXEP   == 8
EFLG_TXEP   == 16
EFLG_TXBO   == 32
EFLG_RX0OVR == 64
EFLG_RX1OVR == 128
TXBCTRL_OFF == 0
TXBSIDH_OFF == 1
TXBSIDL_OFF == 2
TXBEID8_OFF == 3
TXBEID0_OFF == 4
TXBDLC_OFF  == 5
TXBDAT_OFF  == 6
TXBCTRL(n) == n * 16 + 48 + TXBCTRL_OFF
SIDH_SHIFT == 3
SIDL_SID_MASK == 7
SIDL_SID_SHIFT == 5
SIDL_EXIDE_SHIFT == 3
SIDL_EID_SHIFT == 16
SIDL_EID_MASK == 3
DLC_RTR_SHIFT == 6
RXBCTRL_OFF == 0
RXBSIDH_OFF == 1
RXBSIDL_OFF == 2
RXBEID8_OFF == 3
RXBEID0_OFF == 4
RXBDLC_OFF  == 5
RXBDAT_OFF  == 6
RXBCTRL(n) == n * 16 + 96 + RXBCTRL_OFF
RXBCTRL_BUKT == 4
RXBCTRL_RXM0 == 32
RXBCTRL_RXM1 == 64
RXBSIDH_SHIFT == 3
RXBSIDL_IDE == 8
RXBSIDL_SRR == 16
RXBSIDL_EID == 3
RXBSIDL_SHIFT == 5
RXBDLC_LEN_MASK == 15
RXBDLC_RTR == 64
CAN_FRAME_MAX_DATA_LEN == 8
SPI_TRANSFER_BUF_LEN == 6 + CAN_FRAME_MAX_DATA_LEN

\* Indices into the line-assignment table, and the table's default.
GPIO_MISO == 0
GPIO_MOSI == 1
GPIO_CLK  == 2
GPIO_CS   == 3
GPIO_INT  == 4
gpios == [i \in 0..4 |-> CASE i = 0 -> 20 [] i = 1 -> 19 [] i = 2 -> 18
                            [] i = 3 -> 7 [] OTHER -> 6]

\* enum can_state of the CAN core, in the order the handler compares them.
CAN_STATE_ERROR_ACTIVE  == 0
CAN_STATE_ERROR_WARNING == 1
CAN_STATE_ERROR_PASSIVE == 2
CAN_STATE_BUS_OFF       == 3
CAN_STATE_STOPPED       == 4

\* Error-frame classes (can_id) and controller details (data[1]).
CAN_ERR_CRTL   == 4
CAN_ERR_BUSOFF == 64
CAN_ERR_CRTL_RX_OVERFLOW == 1
CAN_ERR_CRTL_RX_WARNING  == 4
CAN_ERR_CRTL_TX_WARNING  == 8
CAN_ERR_CRTL_RX_PASSIVE  == 16
CAN_ERR_CRTL_TX_PASSIVE  == 32

AFTER_SUSPEND_RESTART == 8

\* A null pointer.
NULL == 0

(***************************************************************************)
(* C's bitwise operators on non-negative integers.                         *)
(***************************************************************************)
\* One bit of a AND b, at the position whose weight is w.
AndBit(a, b, w) == ((a \div w) % 2) * ((b \div w) % 2) * w
\* a & b on the low eight bits
And8(a, b) ==
    AndBit(a, b, 1) + AndBit(a, b, 2) + AndBit(a, b, 4) + AndBit(a, b, 8)
    + AndBit(a, b, 16) + AndBit(a, b, 32) + AndBit(a, b, 64)
    + AndBit(a, b, 128)

\* a & b for 0 <= a, b < 2^31, byte by byte
And32(a, b) ==
    And8(a, b) + 256 * And8(a \div 256, b \div 256)
    + 65536 * And8(a \div 65536, b \div 65536)
    + 16777216 * And8(a \div 16777216, b \div 16777216)
\* The operands are evaluated once, as C evaluates them.
And32Of == [x \in Nat, y \in Nat |-> And32(x, y)]
BitAnd(a, b) == And32Of[a, b]

\* a | b
Or32Of == [x \in Nat, y \in Nat |-> x + y - And32(x, y)]
BitOr(a, b) == Or32Of[a, b]

Pow2(n) == 2 ^ n

Shl(a, n) == a * Pow2(n)
Shr(a, n) == a \div Pow2(n)
\* Truncation of an int to u8 on assignment.
U8(a) == a % 256

GET_BYTE(val, byte) == BitAnd(Shr(val, byte * 8), 255)
SET_BYTE(val, byte) == Shl(BitAnd(val, 255), byte * 8)

Min(a, b) == IF a < b THEN a ELSE b

(***************************************************************************)
(* Register access (lines 347-400).  A transfer is recorded as the level   *)
(* of chip-select while it runs, its length and the bytes of the transmit  *)
(* buffer the operation wrote before it (the remaining bytes of the        *)
(* transfer are whatever the buffer held).                                 *)
(***************************************************************************)
Xfer(cs, len, tx) == [cs |-> cs, len |-> len, tx |-> tx]

mcp2515_read_reg(reg) == Xfer(0, 3, <<INSTRUCTION_READ, reg>>)
mcp2515_read_2regs(reg) == Xfer(0, 4, <<INSTRUCTION_READ, reg>>)
mcp2515_write_reg(reg, val) == Xfer(0, 3, <<INSTRUCTION_WRITE, reg, U8(val)>>)
mcp2515_write_bits(reg, mask, val) ==
    Xfer(0, 4, <<INSTRUCTION_BIT_MODIFY, reg, U8(mask), U8(val)>>)
\* Chip-select is left where the previous register operation put it: high.
mcp2515_hw_rx_frame(buf_idx) ==
    Xfer(1, SPI_TRANSFER_BUF_LEN, <<INSTRUCTION_READ_RXB(buf_idx)>>)
mcp2515_hw_sleep == mcp2515_write_reg(CANCTRL, CANCTRL_REQOP_SLEEP)

\* What the chip does with a bit-modify instruction: only masked bits move.
BitModify(old, mask, val) ==
    BitOr(BitAnd(old, 255 - mask), BitAnd(val, mask))

(***************************************************************************)
(* Frame codec, receive side (lines 456-480).  A can_id word is kept as    *)
(* its identifier bits plus the EFF and RTR flag bits as booleans.         *)
(***************************************************************************)
get_can_dlc(i) == Min(i, CAN_FRAME_MAX_DATA_LEN)

mcp2515_hw_rx_decode(buf) ==
    LET sidh == buf[RXBSIDH_OFF + 1]
        sidl == buf[RXBSIDL_OFF + 1]
        eid8 == buf[RXBEID8_OFF + 1]
        eid0 == buf[RXBEID0_OFF + 1]
        dlcb == buf[RXBDLC_OFF + 1]
        ide  == BitAnd(sidl, RXBSIDL_IDE) # 0
        sid  == BitOr(Shl(sidh, RXBSIDH_SHIFT), Shr(sidl, RXBSIDL_SHIFT))
        dlc  == get_can_dlc(BitAnd(dlcb, RXBDLC_LEN_MASK))
    IN  [ can_id  |-> IF ide
                      THEN BitOr(BitOr(SET_BYTE(BitAnd(sidl, RXBSIDL_EID), 2),
                                       SET_BYTE(eid8, 1)),
                                 BitOr(SET_BYTE(eid0, 0), Shl(sid, 18)))
                      ELSE sid,
          eff     |-> ide,
          rtr     |-> IF ide THEN BitAnd(dlcb, RXBDLC_RTR) # 0
                             ELSE BitAnd(sidl, RXBSIDL_SRR) # 0,
          err     |-> FALSE,
          can_dlc |-> dlc,
          data    |-> SubSeq(buf, RXBDAT_OFF + 1, RXBDAT_OFF + dlc) ]

(***************************************************************************)
(* Frame codec, transmit side (lines 407-433).                             *)
(***************************************************************************)
CAN_SFF_MASK == 2047             \* 0x000007FF
CAN_EFF_MASK == 536870911        \* 0x1FFFFFFF

\* Standard ID, or the upper eleven bits of an extended one
hw_tx_sid_low_bits(can_id, exide) == BitAnd(can_id, CAN_SFF_MASK)
hw_tx_sid(can_id, exide) ==
    IF exide THEN Shr(BitAnd(can_id, CAN_EFF_MASK), 18)
    ELSE BitAnd(can_id, CAN_SFF_MASK)
hw_tx_sidh_unshifted(sid) == U8(sid)
hw_tx_sidh(sid) == U8(Shr(sid, SIDH_SHIFT))
hw_tx_sidl(sid, exide, eid) ==
    U8(BitOr(BitOr(Shl(BitAnd(sid, SIDL_SID_MASK), SIDL_SID_SHIFT),
                   Shl(IF exide THEN 1 ELSE 0, SIDL_EXIDE_SHIFT)),
             BitAnd(Shr(eid, SIDL_EID_SHIFT), SIDL_EID_MASK)))
hw_tx_dlc_no_rtr(rtr, can_dlc) == U8(can_dlc)
hw_tx_dlc(rtr, can_dlc) ==
    U8(BitOr(Shl(IF rtr THEN 1 ELSE 0, DLC_RTR_SHIFT), can_dlc))

\* buf as lines 419-426 fill it: six header bytes and can_dlc data bytes.
mcp2515_hw_tx_buf(f, idx) ==
    LET exide == f.eff
        sid   == hw_tx_sid(f.can_id, exide)
        eid   == BitAnd(f.can_id, CAN_EFF_MASK)
    IN  << INSTRUCTION_LOAD_TXB(idx),
           hw_tx_sidh(sid),
           hw_tx_sidl(sid, exide, eid),
           GET_BYTE(eid, 1),
           GET_BYTE(eid, 0),
           hw_tx_dlc(f.rtr, f.can_dlc) >>
        \o SubSeq(f.data, 1, f.can_dlc)

\* The two transfers of mcp2515_hw_tx: the load of the mailbox through
\* mcp2515_hw_tx_frame, then the request to send.  Neither touches
\* chip-select.
mcp2515_hw_tx(f, idx) ==
    << Xfer(1, TXBDAT_OFF + f.can_dlc, mcp2515_hw_tx_buf(f, idx)),
       Xfer(1, 1, <<INSTRUCTION_RTS(Shl(1, idx))>>) >>

(***************************************************************************)
(* Interrupt handler arithmetic (lines 785-866).                           *)
(***************************************************************************)
\* mask out flags we don't care about
ist_mask_intf(raw) == BitAnd(raw, CANINTF_RX + CANINTF_TX + CANINTF_ERR)

\* any error or tx interrupt we need to clear?
ist_clear_intf_wide(flags) == flags
ist_clear_intf(flags) == BitAnd(flags, CANINTF_ERR + CANINTF_TX)

\* Update can state: first match wins.
ist_new_state_bitorder(eflg) ==
    IF BitAnd(eflg, EFLG_RXWAR) # 0 THEN CAN_STATE_ERROR_WARNING
    ELSE IF BitAnd(eflg, EFLG_TXWAR) # 0 THEN CAN_STATE_ERROR_WARNING
    ELSE IF BitAnd(eflg, EFLG_RXEP) # 0 THEN CAN_STATE_ERROR_PASSIVE
    ELSE IF BitAnd(eflg, EFLG_TXEP) # 0 THEN CAN_STATE_ERROR_PASSIVE
    ELSE IF BitAnd(eflg, EFLG_TXBO) # 0 THEN CAN_STATE_BUS_OFF
    ELSE CAN_STATE_ERROR_ACTIVE
ist_new_state(eflg) ==
    IF BitAnd(eflg, EFLG_TXBO) # 0 THEN CAN_STATE_BUS_OFF
    ELSE IF BitAnd(eflg, EFLG_TXEP) # 0 THEN CAN_STATE_ERROR_PASSIVE
    ELSE IF BitAnd(eflg, EFLG_RXEP) # 0 THEN CAN_STATE_ERROR_PASSIVE
    ELSE IF BitAnd(eflg, EFLG_TXWAR) # 0 THEN CAN_STATE_ERROR_WARNING
    ELSE IF BitAnd(eflg, EFLG_RXWAR) # 0 THEN CAN_STATE_ERROR_WARNING
    ELSE CAN_STATE_ERROR_ACTIVE

\* The class and detail bits the same chain puts into the error frame.
ist_err_can_id(eflg) ==
    IF BitAnd(eflg, EFLG_TXBO) # 0 THEN CAN_ERR_BUSOFF
    ELSE IF BitAnd(eflg, EFLG_TXEP + EFLG_RXEP + EFLG_TXWAR + EFLG_RXWAR) # 0
         THEN CAN_ERR_CRTL
    ELSE 0
ist_err_data1(eflg) ==
    IF BitAnd(eflg, EFLG_TXBO) # 0 THEN 0
    ELSE IF BitAnd(eflg, EFLG_TXEP) # 0 THEN CAN_ERR_CRTL_TX_PASSIVE
    ELSE IF BitAnd(eflg, EFLG_RXEP) # 0 THEN CAN_ERR_CRTL_RX_PASSIVE
    ELSE IF BitAnd(eflg, EFLG_TXWAR) # 0 THEN CAN_ERR_CRTL_TX_WARNING
    ELSE IF BitAnd(eflg, EFLG_RXWAR) # 0 THEN CAN_ERR_CRTL_RX_WARNING
    ELSE 0

\* Update can state statistics: the switch on the previous state, with the
\* ERROR_ACTIVE case falling through into the ERROR_WARNING case.
ist_warning_inc(old, new) ==
    IF old = CAN_STATE_ERROR_ACTIVE
       /\ new >= CAN_STATE_ERROR_WARNING /\ new <= CAN_STATE_BUS_OFF
    THEN 1 ELSE 0
ist_passive_inc_nofallthrough(old, new) ==
    IF old = CAN_STATE_ERROR_WARNING
       /\ new >= CAN_STATE_ERROR_PASSIVE /\ new <= CAN_STATE_BUS_OFF
    THEN 1 ELSE 0
ist_passive_inc(old, new) ==
    IF old \in {CAN_STATE_ERROR_ACTIVE, CAN_STATE_ERROR_WARNING}
       /\ new >= CAN_STATE_ERROR_PASSIVE /\ new <= CAN_STATE_BUS_OFF
    THEN 1 ELSE 0

(***************************************************************************)
(* mutex_lock(&priv->mcp_lock) returns once the lock is free.              *)
(***************************************************************************)
mutex_is_free_always(lock) == TRUE
mutex_is_free(lock) == lock = "free"

(***************************************************************************)
(* The pending transmit slot (lines 266-278, 499).                         *)
(***************************************************************************)
tx_busy_len_only(skb, len) == len # 0
tx_busy(skb, len) == skb # NULL \/ len # 0

clean_tx_errors_len_only(n, skb, len) == IF len # 0 THEN n + 1 ELSE n
clean_tx_errors(n, skb, len) == IF skb # NULL \/ len # 0 THEN n + 1 ELSE n

(***************************************************************************)
(* State.                                                                  *)
(***************************************************************************)
VARIABLES
    \* struct mcp2515_priv and the net_device it belongs to
    mcp_lock,        \* owner of priv->mcp_lock: "free", "ist", "open", "stop"
    tx_skb,          \* priv->tx_skb: NULL or the buffer held
    tx_len,          \* priv->tx_len
    force_quit,      \* priv->force_quit
    can_state,       \* priv->can.state
    restart_ms,      \* priv->can.restart_ms
    restart_tx,      \* priv->restart_tx
    after_suspend,   \* priv->after_suspend
    can_stats,       \* priv->can.can_stats
    stats,           \* net->stats
    \* what the driver has asked of the kernel
    irq_registered,  \* request_threaded_irq without a free_irq since
    transceiver_on,  \* last mcp2515_power_enable(priv->transceiver, .)
    queue_stopped,   \* netif_stop_queue without a netif_wake_queue since
    carrier_ok,      \* netif_carrier_on/off, through open_candev/can_bus_off
    up,              \* the interface is running: ndo_open returned 0
    \* the handler thread
    ist_pc, intf, eflag,
    \* ndo_open, ndo_stop, do_set_mode (under the rtnl lock), ndo_start_xmit
    open_pc, open_ret, stop_pc, mode_pc,
    probe_pc,        \* mcp2515_can_probe, from its call of mcp2515_hw_probe on
    xmit_pc, xmit_skb, xmit_valid, xmit_ret,
    \* the wire and the stack, as the lock holder has used them
    spi_log,         \* transfers made in this pass / this call so far
    delivered,       \* frames given to netif_rx_ni in this pass so far
    \* mcp2515_spi_trans, bit by bit
    spi_pc, spi_cs, spi_tx_buf, spi_rx_buf, spi_len, spi_i, spi_j,
    data_out, data_in, miso_byte, gpio,
    \* a driver function called on its own, with its arguments
    hw_pc,           \* which one, and whether it has returned
    can_frame,       \* struct can_frame *frame
    tx_buf_idx,      \* int tx_buf_idx
    bittiming        \* priv->can.bittiming and the CAN_CTRLMODE_3_SAMPLES flag

privVars  == <<tx_skb, tx_len, force_quit, can_state, restart_ms, restart_tx,
               after_suspend, can_stats, stats>>
kernVars  == <<irq_registered, transceiver_on, queue_stopped, carrier_ok, up>>
istVars   == <<ist_pc, intf, eflag>>
ctlVars   == <<open_pc, open_ret, stop_pc, mode_pc, probe_pc>>
xmitVars  == <<xmit_pc, xmit_skb, xmit_valid, xmit_ret>>
ioVars    == <<spi_log, delivered>>
transVars == <<spi_pc, spi_cs, spi_tx_buf, spi_rx_buf, spi_len, spi_i, spi_j,
               data_out, data_in, miso_byte, gpio>>
argVars   == <<hw_pc, can_frame, tx_buf_idx, bittiming>>
vars == <<mcp_lock, privVars, kernVars, istVars, ctlVars, xmitVars, ioVars,
          transVars, argVars>>

(***************************************************************************)
(* Inputs: what the chip returns and what the stack and the user supply.   *)
(***************************************************************************)
\* CANINTF as read: none, RX0+RX1, TX0, ERR, MERRF+ERR+TX1+RX0.
IntfValues == {0, 3, 4, 32, 169}
\* EFLG as read: none, RXWAR, TXEP+TXWAR+EWARN, TXBO+RXWAR, RX0OVR.
EflgValues == {0, 2, 21, 34, 64}
\* Receive mailbox images: standard 0x123 with two data bytes, and
\* extended 0x1ABCDEF, remote, with one.
RxImages == { <<0, 36, 96, 0, 0, 2, 170, 187, 0, 0, 0, 0, 0, 0>>,
              <<0, 13, 75, 205, 239, 65, 85, 0, 0, 0, 0, 0, 0, 0>> }
\* What a call of mcp2515_hw_rx meets: whether alloc_can_skb succeeds and
\* the mailbox image the chip returns, with the frame lines 456-480 build
\* from it.
NoRx == [alloc_ok |-> FALSE, img |-> <<>>, frame |-> <<>>]
RxReceived == { [alloc_ok |-> TRUE, img |-> i,
                 frame |-> mcp2515_hw_rx_decode(i)] : i \in RxImages }
RxOutcomes(intf_read, flag) ==
    IF BitAnd(intf_read, flag) # 0 THEN {NoRx} \cup RxReceived ELSE {NoRx}
\* Socket buffers: two, so that a slot whose buffer was replaced differs
\* from one left alone.  The stack never submits the buffer the driver
\* still holds; which other one it submits makes no difference.
Skbs == {1, 2}
OtherSkb(held) == CHOOSE skb \in Skbs : skb # held
RestartMsValues == {0, 100}
CtrlModes == {"normal", "loopback", "listenonly"}
CanModes == {"CAN_MODE_START", "CAN_MODE_STOP"}
\* struct can_bittiming with the CAN_CTRLMODE_3_SAMPLES flag
BtConfigs == { [sjw |-> 1, brp |-> 1, phase_seg1 |-> 3, prop_seg |-> 2,
                phase_seg2 |-> 2, samples3 |-> FALSE],
               [sjw |-> 4, brp |-> 64, phase_seg1 |-> 8, prop_seg |-> 8,
                phase_seg2 |-> 8, samples3 |-> TRUE] }
\* Reads of CANSTAT a wait for normal mode makes at most.
MaxPolls == 2

\* intf after the mask of line 785
IntfRead == {ist_mask_intf(raw) : raw \in IntfValues}

StatTotal(st, cst) ==
    st.rx_packets + st.rx_dropped + st.rx_errors + st.tx_packets
    + st.tx_errors + st.tx_dropped + cst.error_warning + cst.error_passive

(***************************************************************************)
(* Initial state: the device when mcp2515_can_probe calls mcp2515_hw_probe *)
(* (alloc_candev zeroed the private data and set the state to stopped).    *)
(***************************************************************************)
\* The lines after mcp2515_can_probe (lines 1035-1058): the three outputs
\* it requested are high.  Nothing has been requested of lines 0..4, the
\* ones the transport uses; what is attached to line 0, the one it
\* samples, holds it at lvl0.
LinesAfterProbe(lvl0) ==
    [l \in {0, 1, 2, 3, 4, 6, 7, 18, 19, 20} |->
        IF l \in {gpios[GPIO_MOSI], gpios[GPIO_CLK], gpios[GPIO_CS]} THEN 1
        ELSE IF l = GPIO_MISO THEN lvl0
        ELSE 0]

\* No driver function is called on its own: the arguments are not used.
NoFrame == [can_id |-> 0, eff |-> FALSE, rtr |-> FALSE, err |-> FALSE,
            can_dlc |-> 0, data |-> <<0, 0, 0, 0, 0, 0, 0, 0>>]
InitArgs ==
    /\ hw_pc = "none"
    /\ can_frame = NoFrame
    /\ tx_buf_idx = 0
    /\ bittiming = CHOOSE bt \in BtConfigs : bt.sjw = 1

InitTrans ==
    /\ spi_pc = "idle"
    /\ spi_cs = 1
    /\ spi_tx_buf = [k \in 1..SPI_TRANSFER_BUF_LEN |-> 0]
    /\ spi_rx_buf = [k \in 1..SPI_TRANSFER_BUF_LEN |-> 0]
    /\ spi_len = 0
    /\ spi_i = 0
    /\ spi_j = 0
    /\ data_out = 0
    /\ data_in = 0
    /\ miso_byte = 0
    /\ gpio \in {LinesAfterProbe(lvl0) : lvl0 \in {0, 1}}

InitDriver ==
    /\ mcp_lock = "free"
    /\ tx_skb = NULL
    /\ tx_len = 0
    /\ force_quit = 0
    /\ can_state = CAN_STATE_STOPPED
    /\ restart_ms \in RestartMsValues
    /\ restart_tx = 0
    /\ after_suspend = 0
    /\ can_stats = [error_warning |-> 0, error_passive |-> 0]
    /\ stats = [rx_packets |-> 0, rx_bytes |-> 0, rx_dropped |-> 0,
                rx_errors |-> 0, rx_over_errors |-> 0, tx_packets |-> 0,
                tx_bytes |-> 0, tx_errors |-> 0, tx_dropped |-> 0]
    /\ irq_registered = FALSE
    /\ transceiver_on = FALSE
    /\ queue_stopped = FALSE
    /\ carrier_ok = TRUE
    /\ up = FALSE
    /\ ist_pc = "idle"
    /\ intf = 0
    /\ eflag = 0
    /\ open_pc = "idle"
    /\ open_ret = "none"
    /\ stop_pc = "idle"
    /\ mode_pc = "idle"
    /\ probe_pc = "probe"
    /\ xmit_pc = "idle"
    /\ xmit_skb = NULL
    /\ InitArgs
    /\ xmit_valid = FALSE
    /\ xmit_ret = "none"
    /\ spi_log = <<>>
    /\ delivered = <<>>

\* No transfer is stepped in Spec, so one level of line 0 is enough there.
Init == InitDriver /\ InitTrans /\ gpio[GPIO_MISO] = 0

(***************************************************************************)
(* mcp2515_hw_rx (lines 443-488): allocation, mailbox read, decode,        *)
(* statistics, delivery.  The result is the statistics after the call,     *)
(* the transfers made and the frames delivered.                            *)
(***************************************************************************)
mcp2515_hw_rx_drop_uncounted(st, buf_idx, rx) ==
    IF ~rx.alloc_ok
    THEN [stats |-> st, xfers |-> <<>>, frames |-> <<>>]
    ELSE [stats |-> [st EXCEPT !.rx_packets = @ + 1,
                               !.rx_bytes = (@ + rx.frame.can_dlc) % UlongMod],
          xfers |-> <<mcp2515_hw_rx_frame(buf_idx)>>,
          frames |-> <<rx.frame>>]
mcp2515_hw_rx(st, buf_idx, rx) ==
    IF ~rx.alloc_ok
    THEN [stats |-> [st EXCEPT !.rx_dropped = @ + 1],
          xfers |-> <<>>, frames |-> <<>>]
    ELSE LET frame == rx.frame
         IN  [stats |-> [st EXCEPT !.rx_packets = @ + 1,
                                   !.rx_bytes = (@ + frame.can_dlc) % UlongMod],
              xfers |-> <<mcp2515_hw_rx_frame(buf_idx)>>,
              frames |-> <<frame>>]

\* mcp2515_error_skb (lines 688-701): the frame alloc_can_err_skb returns,
\* with the class bits and data[1] filled in.
mcp2515_error_skb(can_id, data1) ==
    [can_id |-> can_id, eff |-> FALSE, rtr |-> FALSE, err |-> TRUE,
     can_dlc |-> 8, data |-> <<0, data1, 0, 0, 0, 0, 0, 0>>]

(***************************************************************************)
(* The threaded interrupt handler, mcp2515_can_ist (lines 769-894).        *)
(***************************************************************************)
\* while (!priv->force_quit)
ist_while_cond_always(fq) == TRUE
ist_while_cond(fq) == fq = 0

\* Handle overflow counters (lines 853-860): one count per flag.
ist_overflows_once(ef) ==
    IF BitAnd(ef, EFLG_RX0OVR + EFLG_RX1OVR) # 0 THEN 1 ELSE 0
ist_overflows(ef) ==
    (IF BitAnd(ef, EFLG_RX0OVR) # 0 THEN 1 ELSE 0)
    + (IF BitAnd(ef, EFLG_RX1OVR) # 0 THEN 1 ELSE 0)

\* The call of mcp2515_error_skb at line 865: made whenever ERRIF was
\* read, delivering a frame if alloc_can_err_skb gives one.
ist_err_frames_classified(errif, alloc_ok, can_id, data1) ==
    IF errif /\ alloc_ok /\ can_id # 0
    THEN <<mcp2515_error_skb(can_id, data1)>> ELSE <<>>
ist_err_frames(errif, alloc_ok, can_id, data1) ==
    IF errif /\ alloc_ok THEN <<mcp2515_error_skb(can_id, data1)>> ELSE <<>>

\* The exit on bus-off (lines 868-869) and the one at line 877.
ist_bus_off_exits_never(state, ms) == FALSE
ist_bus_off_exits(state, ms) == state = CAN_STATE_BUS_OFF /\ ms = 0
ist_nothing_pending_rx(m) == BitAnd(m, CANINTF_RX) = 0
ist_nothing_pending(m) == m = 0

\* The interrupt line fires and the handler thread starts; it then waits
\* for the lock.  IRQF_ONESHOT: no second invocation while one is running.
mcp2515_can_ist_enter ==
    /\ irq_registered
    /\ ist_pc = "idle"
    /\ ist_pc' = "lock"
    /\ UNCHANGED argVars
    /\ UNCHANGED <<mcp_lock, privVars, kernVars, intf, eflag, ctlVars,
                   xmitVars, ioVars, transVars>>

\* mutex_lock(&priv->mcp_lock)
mcp2515_can_ist_lock ==
    /\ ist_pc = "lock"
    /\ mutex_is_free(mcp_lock)
    /\ mcp_lock' = "ist"
    /\ ist_pc' = "loop"
    /\ UNCHANGED argVars
    /\ UNCHANGED <<privVars, kernVars, intf, eflag, ctlVars, xmitVars,
                   ioVars, transVars>>

\* while (!priv->force_quit) found false
mcp2515_can_ist_quit ==
    /\ ist_pc = "loop"
    /\ ~ist_while_cond(force_quit)
    /\ ist_pc' = "unlock"
    /\ UNCHANGED argVars
    /\ UNCHANGED <<mcp_lock, privVars, kernVars, intf, eflag, ctlVars,
                   xmitVars, ioVars, transVars>>

\* What lines 776-866 compute from the values a pass reads: the masked
\* interrupt flags m, the error flags ef, what each mailbox service meets,
\* and whether alloc_can_err_skb succeeds.
ist_pass_read(m, ef, rx0, rx1, alloc_ok) ==
    LET errif == BitAnd(m, CANINTF_ERRIF) # 0
        ovr   == BitAnd(ef, EFLG_RX0OVR + EFLG_RX1OVR) # 0
        can_id == BitOr(ist_err_can_id(ef), IF ovr THEN CAN_ERR_CRTL ELSE 0)
        data1  == BitOr(ist_err_data1(ef),
                        IF ovr THEN CAN_ERR_CRTL_RX_OVERFLOW ELSE 0)
        clear_intf == ist_clear_intf(m)
    IN  [ intf |-> m, eflag |-> ef, rx0 |-> rx0, rx1 |-> rx1,
          alloc_ok |-> alloc_ok,
          rx0if |-> BitAnd(m, CANINTF_RX0IF) # 0,
          rx1if |-> BitAnd(m, CANINTF_RX1IF) # 0,
          clear |-> (IF clear_intf # 0
                     THEN <<mcp2515_write_bits(CANINTF, clear_intf, 0)>>
                     ELSE <<>>)
                    \o (IF ef # 0 THEN <<mcp2515_write_bits(EFLG, ef, 0)>>
                        ELSE <<>>),
          new_state |-> ist_new_state(ef),
          errif |-> errif,
          overflows |-> ist_overflows(ef),
          err_frames |-> ist_err_frames(errif, alloc_ok, can_id, data1),
          txif |-> BitAnd(m, CANINTF_TX) # 0 ]

\* Every combination of reads a pass can meet.  alloc_can_err_skb is only
\* called when ERRIF was read.
PassReads ==
    UNION { { ist_pass_read(m, ef, rx0, rx1, alloc_ok) :
                rx0 \in RxOutcomes(m, CANINTF_RX0IF),
                rx1 \in RxOutcomes(m, CANINTF_RX1IF),
                alloc_ok \in IF BitAnd(m, CANINTF_ERRIF) # 0
                             THEN BOOLEAN ELSE {TRUE} } :
            m \in IntfRead, ef \in EflgValues }

\* One pass up to the two exits of the loop (lines 776-878): read both flag
\* registers, serve the receive mailboxes, clear the interrupt and error
\* flags, compute the new state, count transitions and overflows, deliver
\* the error frame, and leave on terminal bus-off or when nothing is
\* pending.
ist_pass(reads) ==
    /\ ist_pc = "loop"
    /\ ist_while_cond(force_quit)
    /\ \E r \in reads :
        LET none(st) == [stats |-> st, xfers |-> <<>>, frames |-> <<>>]
            r0  == IF r.rx0if THEN mcp2515_hw_rx(stats, 0, r.rx0)
                              ELSE none(stats)
            r1  == IF r.rx1if THEN mcp2515_hw_rx(r0.stats, 1, r.rx1)
                              ELSE none(r0.stats)
            terminal == ist_bus_off_exits(r.new_state, restart_ms)
        IN  /\ intf' = r.intf
            /\ eflag' = r.eflag
            /\ can_stats' =
                 [error_warning |-> can_stats.error_warning
                                    + ist_warning_inc(can_state, r.new_state),
                  error_passive |-> can_stats.error_passive
                                    + ist_passive_inc(can_state, r.new_state)]
            /\ can_state' = r.new_state
            /\ stats' = IF r.errif
                        THEN [r1.stats EXCEPT
                                !.rx_over_errors = @ + r.overflows,
                                !.rx_errors = @ + r.overflows]
                        ELSE r1.stats
            /\ StatTotal(stats', can_stats') <= MaxStatEvents
            /\ delivered' = r0.frames \o r1.frames \o r.err_frames
            /\ spi_log' = <<mcp2515_read_2regs(CANINTF)>>
                  \o r0.xfers \o r1.xfers \o r.clear
                  \o (IF terminal THEN <<mcp2515_hw_sleep>> ELSE <<>>)
            /\ force_quit' = IF terminal THEN 1 ELSE force_quit
            /\ carrier_ok' = IF terminal THEN FALSE     \* can_bus_off
                                         ELSE carrier_ok
            /\ ist_pc' = IF terminal \/ ist_nothing_pending(r.intf)
                         THEN "unlock" ELSE "tx"
    /\ UNCHANGED argVars
    /\ UNCHANGED <<mcp_lock, tx_skb, tx_len, restart_ms, restart_tx,
                   after_suspend, irq_registered, transceiver_on,
                   queue_stopped, up, ctlVars, xmitVars, transVars>>

mcp2515_can_ist_pass == ist_pass(PassReads)

\* One pass, last part (lines 880-891): transmit completion.
mcp2515_can_ist_tx ==
    /\ ist_pc = "tx"
    /\ IF BitAnd(intf, CANINTF_TX) # 0
       THEN /\ stats' = [stats EXCEPT
                           !.tx_packets = @ + 1,
                           !.tx_bytes = (@ + tx_len - 1) % UlongMod]
            /\ StatTotal(stats', can_stats) <= MaxStatEvents
            /\ tx_len' = 0
            /\ queue_stopped' = FALSE               \* netif_wake_queue
       ELSE UNCHANGED <<stats, tx_len, queue_stopped>>
    /\ ist_pc' = "loop"
    /\ intf' = 0
    /\ eflag' = 0
    /\ spi_log' = <<>>
    /\ delivered' = <<>>
    /\ UNCHANGED argVars
    /\ UNCHANGED <<mcp_lock, tx_skb, force_quit, can_state, restart_ms,
                   restart_tx, after_suspend, can_stats, irq_registered,
                   transceiver_on, carrier_ok, up, ctlVars, xmitVars,
                   transVars>>

\* mutex_unlock(&priv->mcp_lock); return IRQ_HANDLED
mcp2515_can_ist_unlock ==
    /\ ist_pc = "unlock"
    /\ mcp_lock' = "free"
    /\ ist_pc' = "idle"
    /\ intf' = 0
    /\ eflag' = 0
    /\ spi_log' = <<>>
    /\ delivered' = <<>>
    /\ UNCHANGED argVars
    /\ UNCHANGED <<privVars, kernVars, ctlVars, xmitVars, transVars>>

(***************************************************************************)
(* mcp2515_hard_start_xmit (lines 495-512).  The stack calls it only on a  *)
(* running interface whose queue is awake, one call at a time.  It takes   *)
(* no lock, so the test of the slot and the store into it are two steps    *)
(* other contexts can come between.                                        *)
(***************************************************************************)
\* The call and its two tests (lines 499-505): busy if the slot is occupied;
\* an invalid buffer is dropped by can_dropped_invalid_skb.
mcp2515_hard_start_xmit_call ==
    /\ up
    /\ ~queue_stopped
    /\ xmit_pc = "idle"
    /\ xmit_skb' = OtherSkb(tx_skb)
    /\ \E valid \in BOOLEAN :
        /\ xmit_valid' = valid
        /\ IF tx_busy(tx_skb, tx_len)
           THEN /\ xmit_ret' = "NETDEV_TX_BUSY"
                /\ xmit_pc' = "ret"
                /\ UNCHANGED stats
           ELSE IF ~valid
           THEN /\ stats' = [stats EXCEPT !.tx_dropped = @ + 1]
                /\ StatTotal(stats', can_stats) <= MaxStatEvents
                /\ xmit_ret' = "NETDEV_TX_OK"
                /\ xmit_pc' = "ret"
           ELSE /\ xmit_pc' = "store"
                /\ xmit_ret' = "none"
                /\ UNCHANGED stats
    /\ UNCHANGED argVars
    /\ UNCHANGED <<mcp_lock, tx_skb, tx_len, force_quit, can_state, restart_ms,
                   restart_tx, after_suspend, can_stats, kernVars, istVars,
                   ctlVars, ioVars, transVars>>

\* netif_stop_queue; priv->tx_skb = skb; queue_work on the transmit work,
\* whose handler is compiled out.  priv->wq is never created (lines 927-932
\* are a comment), so queue_work is handed a null workqueue: either the
\* call has no effect or the calling task is killed in it and never
\* returns.
mcp2515_hard_start_xmit_store ==
    /\ xmit_pc = "store"
    /\ queue_stopped' = TRUE
    /\ tx_skb' = xmit_skb
    /\ \E killed \in BOOLEAN :
        IF killed
        THEN /\ xmit_pc' = "oops"
             /\ UNCHANGED xmit_ret
        ELSE /\ xmit_pc' = "ret"
             /\ xmit_ret' = "NETDEV_TX_OK"
    /\ UNCHANGED argVars
    /\ UNCHANGED <<mcp_lock, tx_len, force_quit, can_state, restart_ms,
                   restart_tx, after_suspend, can_stats, stats,
                   irq_registered, transceiver_on, carrier_ok, up, istVars,
                   ctlVars, xmit_skb, xmit_valid, ioVars, transVars>>

\* The call returns xmit_ret to the stack.
mcp2515_hard_start_xmit_return ==
    /\ xmit_pc = "ret"
    /\ xmit_pc' = "idle"
    /\ xmit_ret' = "none"
    /\ xmit_skb' = NULL
    /\ xmit_valid' = FALSE
    /\ UNCHANGED argVars
    /\ UNCHANGED <<mcp_lock, privVars, kernVars, istVars, ctlVars, ioVars,
                   transVars>>

(***************************************************************************)
(* Link configuration (lines 535-615), as the transfers each call makes.   *)
(***************************************************************************)
mcp2515_do_set_bittiming_ps1_unshifted(bt) ==
    << mcp2515_write_reg(CNF1, BitOr(Shl(bt.sjw - 1, CNF1_SJW_SHIFT),
                                     bt.brp - 1)),
       mcp2515_write_reg(CNF2,
           BitOr(BitOr(CNF2_BTLMODE, IF bt.samples3 THEN CNF2_SAM ELSE 0),
                 BitOr(bt.phase_seg1 - 1, bt.prop_seg - 1))),
       mcp2515_write_bits(CNF3, CNF3_PHSEG2_MASK, bt.phase_seg2 - 1) >>
mcp2515_do_set_bittiming(bt) ==
    << mcp2515_write_reg(CNF1, BitOr(Shl(bt.sjw - 1, CNF1_SJW_SHIFT),
                                     bt.brp - 1)),
       mcp2515_write_reg(CNF2,
           BitOr(BitOr(CNF2_BTLMODE, IF bt.samples3 THEN CNF2_SAM ELSE 0),
                 BitOr(Shl(bt.phase_seg1 - 1, CNF2_PS1_SHIFT),
                       bt.prop_seg - 1))),
       mcp2515_write_bits(CNF3, CNF3_PHSEG2_MASK, bt.phase_seg2 - 1) >>

mcp2515_setup(bt) ==
    mcp2515_do_set_bittiming(bt)
    \o << mcp2515_write_reg(RXBCTRL(0),
                            RXBCTRL_BUKT + RXBCTRL_RXM0 + RXBCTRL_RXM1),
          mcp2515_write_reg(RXBCTRL(1), RXBCTRL_RXM0 + RXBCTRL_RXM1) >>

\* The reset instruction goes out without chip-select being touched; then
\* CANSTAT is read back.
mcp2515_hw_reset ==
    << Xfer(1, 1, <<INSTRUCTION_RESET>>), mcp2515_read_reg(CANSTAT) >>

\* The transfers of mcp2515_set_normal_mode; polls is the number of reads
\* of CANSTAT the wait loop makes in normal mode.
mcp2515_set_normal_mode(mode, polls) ==
    << mcp2515_write_reg(CANINTE,
           CANINTE_ERRIE + CANINTE_TX2IE + CANINTE_TX1IE + CANINTE_TX0IE
           + CANINTE_RX1IE + CANINTE_RX0IE) >>
    \o (IF mode = "loopback"
        THEN <<mcp2515_write_reg(CANCTRL, CANCTRL_REQOP_LOOPBACK)>>
        ELSE IF mode = "listenonly"
        THEN <<mcp2515_write_reg(CANCTRL, CANCTRL_REQOP_LISTEN_ONLY)>>
        ELSE <<mcp2515_write_reg(CANCTRL, CANCTRL_REQOP_NORMAL)>>
             \o [k \in 1..polls |-> mcp2515_read_reg(CANSTAT)])

(***************************************************************************)
(* mcp2515_can_probe from its call of mcp2515_hw_probe on (lines           *)
(* 1080-1115), with mcp2515_hw_probe (lines 617-634).  The probe takes no  *)
(* lock: the device is not registered yet, so nothing else can reach it.   *)
(***************************************************************************)
\* The transfers of mcp2515_hw_probe and whether it succeeds, given what
\* the chip answers for CANSTAT and CANCTRL.
mcp2515_hw_probe(canstat, ctrl) ==
    IF BitAnd(canstat, CANCTRL_REQOP_MASK) # CANCTRL_REQOP_CONF
    THEN [xfers |-> mcp2515_hw_reset, ok |-> FALSE]
    ELSE [xfers |-> mcp2515_hw_reset \o <<mcp2515_read_reg(CANCTRL)>>,
          ok |-> BitAnd(ctrl, 23) = 7]

\* CANCTRL as read after a reset: the power-up default 0x87, or not.
CanctrlValues == {135, 0}

mcp2515_can_probe_hw ==
    /\ probe_pc = "probe"
    /\ \E canstat \in {CANCTRL_REQOP_CONF, CANCTRL_REQOP_NORMAL},
          ctrl \in CanctrlValues :
        /\ spi_log' = mcp2515_hw_probe(canstat, ctrl).xfers
        /\ probe_pc' = IF mcp2515_hw_probe(canstat, ctrl).ok
                       THEN "register" ELSE "error"
    /\ UNCHANGED argVars
    /\ UNCHANGED <<mcp_lock, privVars, kernVars, istVars, open_pc, open_ret,
                   stop_pc, mode_pc, xmitVars, delivered, transVars>>

\* register_candev: from here on the stack can open the interface.
mcp2515_can_probe_register ==
    /\ probe_pc = "register"
    /\ \E registered \in BOOLEAN :
        probe_pc' = IF registered THEN "done" ELSE "error"
    /\ spi_log' = <<>>
    /\ UNCHANGED argVars
    /\ UNCHANGED <<mcp_lock, privVars, kernVars, istVars, open_pc, open_ret,
                   stop_pc, mode_pc, xmitVars, delivered, transVars>>

\* error_probe: power off, free_candev; the device is gone.
mcp2515_can_probe_error ==
    /\ probe_pc = "error"
    /\ probe_pc' = "failed"
    /\ spi_log' = <<>>
    /\ UNCHANGED argVars
    /\ UNCHANGED <<mcp_lock, privVars, kernVars, istVars, open_pc, open_ret,
                   stop_pc, mode_pc, xmitVars, delivered, transVars>>

(***************************************************************************)
(* mcp2515_open (lines 896-956) and mcp2515_open_clean (lines 647-655).    *)
(* ndo_open and ndo_stop run under the rtnl lock, so never together.       *)
(***************************************************************************)
\* open_candev, and on success the wait for the driver lock begins.
mcp2515_open_begin ==
    /\ probe_pc = "done"
    /\ ~up
    /\ open_pc = "idle"
    /\ stop_pc = "idle"
    /\ mode_pc = "idle"
    /\ \E candev_ok \in BOOLEAN :
        IF candev_ok
        THEN /\ carrier_ok' = TRUE
             /\ open_pc' = "lock"
             /\ open_ret' = "none"
        ELSE /\ open_ret' = "EINVAL"
             /\ open_pc' = "ret"
             /\ UNCHANGED carrier_ok
    /\ UNCHANGED argVars
    /\ UNCHANGED <<mcp_lock, privVars, irq_registered, transceiver_on,
                   queue_stopped, up, istVars, stop_pc, mode_pc, probe_pc, xmitVars, ioVars,
                   transVars>>

mcp2515_open_lock ==
    /\ open_pc = "lock"
    /\ mutex_is_free(mcp_lock)
    /\ mcp_lock' = "open"
    /\ open_pc' = "irq"
    /\ UNCHANGED argVars
    /\ UNCHANGED <<privVars, kernVars, istVars, open_ret, stop_pc, mode_pc, probe_pc, xmitVars,
                   ioVars, transVars>>

\* Power up, reset the driver's flags and slot, request the interrupt.  The
\* line is not shared, so a registration still in place refuses a second.
mcp2515_open_irq ==
    /\ open_pc = "irq"
    /\ force_quit' = 0
    /\ tx_skb' = NULL
    /\ tx_len' = 0
    /\ \E refused \in BOOLEAN :
        IF irq_registered \/ refused
        THEN /\ transceiver_on' = FALSE
             /\ open_ret' = "EIRQ"
             /\ open_pc' = "unlock"
             /\ UNCHANGED irq_registered
        ELSE /\ transceiver_on' = TRUE
             /\ irq_registered' = TRUE
             /\ open_pc' = "hw"
             /\ UNCHANGED open_ret
    /\ UNCHANGED argVars
    /\ UNCHANGED <<mcp_lock, can_state, restart_ms, restart_tx, after_suspend,
                   can_stats, stats, queue_stopped, carrier_ok, up, istVars,
                   stop_pc, mode_pc, probe_pc, xmitVars, ioVars, transVars>>

\* Reset, setup and mode entry, with the interrupt already live.
mcp2515_open_hw ==
    /\ open_pc = "hw"
    /\ \E canstat \in {CANCTRL_REQOP_CONF, CANCTRL_REQOP_NORMAL},
          bt \in BtConfigs, mode \in CtrlModes, polls \in 1..MaxPolls,
          entered \in BOOLEAN :
        IF BitAnd(canstat, CANCTRL_REQOP_MASK) # CANCTRL_REQOP_CONF
        THEN /\ spi_log' = mcp2515_hw_reset
             /\ open_ret' = "ENODEV"
             /\ open_pc' = "clean"
             /\ UNCHANGED <<can_state, queue_stopped>>
        ELSE IF mode = "normal" /\ ~entered
        THEN /\ spi_log' = mcp2515_hw_reset \o mcp2515_setup(bt)
                              \o mcp2515_set_normal_mode(mode, polls)
             /\ open_ret' = "EBUSY"
             /\ open_pc' = "clean"
             /\ UNCHANGED <<can_state, queue_stopped>>
        ELSE /\ spi_log' = mcp2515_hw_reset \o mcp2515_setup(bt)
                              \o mcp2515_set_normal_mode(mode, polls)
             /\ can_state' = CAN_STATE_ERROR_ACTIVE
             /\ queue_stopped' = FALSE              \* netif_wake_queue
             /\ open_ret' = "ok"
             /\ open_pc' = "unlock"
    /\ UNCHANGED argVars
    /\ UNCHANGED <<mcp_lock, tx_skb, tx_len, force_quit, restart_ms,
                   restart_tx, after_suspend, can_stats, stats,
                   irq_registered, transceiver_on, carrier_ok, up, istVars,
                   stop_pc, mode_pc, probe_pc, xmitVars, delivered, transVars>>

\* mcp2515_open_clean.  free_irq returns only once no handler invocation
\* is in progress.
mcp2515_open_clean ==
    /\ open_pc = "clean"
    /\ ist_pc = "idle"
    /\ irq_registered' = FALSE
    /\ spi_log' = Append(spi_log, mcp2515_hw_sleep)
    /\ transceiver_on' = FALSE
    /\ open_pc' = "unlock"
    /\ UNCHANGED argVars
    /\ UNCHANGED <<mcp_lock, privVars, queue_stopped, carrier_ok, up, istVars,
                   open_ret, stop_pc, mode_pc, probe_pc, xmitVars, delivered, transVars>>

\* open_unlock: mutex_unlock(&priv->mcp_lock)
mcp2515_open_unlock ==
    /\ open_pc = "unlock"
    /\ mcp_lock' = "free"
    /\ open_pc' = "ret"
    /\ spi_log' = <<>>
    /\ UNCHANGED argVars
    /\ UNCHANGED <<privVars, kernVars, istVars, open_ret, stop_pc, mode_pc, probe_pc, xmitVars,
                   delivered, transVars>>

\* return ret.  The interface runs if ret is 0.
mcp2515_open_return ==
    /\ open_pc = "ret"
    /\ open_pc' = "idle"
    /\ up' = (open_ret = "ok")
    /\ open_ret' = "none"
    /\ UNCHANGED argVars
    /\ UNCHANGED <<mcp_lock, privVars, irq_registered, transceiver_on,
                   queue_stopped, carrier_ok, istVars, stop_pc, mode_pc, probe_pc, xmitVars,
                   ioVars, transVars>>

(***************************************************************************)
(* mcp2515_stop (lines 657-686) and mcp2515_clean (lines 266-278).  The    *)
(* stack has quiesced transmission before it calls ndo_stop.               *)
(***************************************************************************)
\* close_candev; priv->force_quit = 1; the free_irq is commented out;
\* destroy_workqueue on the null priv->wq, with the same two outcomes as
\* queue_work has.
mcp2515_stop_begin ==
    /\ up
    /\ open_pc = "idle"
    /\ stop_pc = "idle"
    /\ mode_pc = "idle"
    /\ xmit_pc = "idle"
    /\ up' = FALSE
    /\ force_quit' = 1
    /\ \E killed \in BOOLEAN : stop_pc' = IF killed THEN "oops" ELSE "lock"
    /\ UNCHANGED argVars
    /\ UNCHANGED <<mcp_lock, tx_skb, tx_len, can_state, restart_ms, restart_tx,
                   after_suspend, can_stats, stats, irq_registered,
                   transceiver_on, queue_stopped, carrier_ok, istVars,
                   open_pc, open_ret, mode_pc, probe_pc, xmitVars, ioVars, transVars>>

mcp2515_stop_lock ==
    /\ stop_pc = "lock"
    /\ mutex_is_free(mcp_lock)
    /\ mcp_lock' = "stop"
    /\ stop_pc' = "body"
    /\ UNCHANGED argVars
    /\ UNCHANGED <<privVars, kernVars, istVars, open_pc, open_ret, mode_pc, probe_pc, xmitVars,
                   ioVars, transVars>>

\* Disable and clear interrupts, abort the mailbox, clean the slot, power
\* down, mark the link stopped.
mcp2515_stop_body ==
    /\ stop_pc = "body"
    /\ spi_log' = << mcp2515_write_reg(CANINTE, 0),
                     mcp2515_write_reg(CANINTF, 0),
                     mcp2515_write_reg(TXBCTRL(0), 0) >>
    /\ stats' = [stats EXCEPT
                   !.tx_errors = clean_tx_errors(@, tx_skb, tx_len)]
    /\ StatTotal(stats', can_stats) <= MaxStatEvents
    /\ tx_skb' = NULL
    /\ tx_len' = 0
    /\ transceiver_on' = FALSE
    /\ can_state' = CAN_STATE_STOPPED
    /\ stop_pc' = "unlock"
    /\ UNCHANGED argVars
    /\ UNCHANGED <<mcp_lock, force_quit, restart_ms, restart_tx,
                   after_suspend, can_stats, irq_registered, queue_stopped,
                   carrier_ok, up, istVars, open_pc, open_ret, mode_pc, probe_pc, xmitVars,
                   delivered, transVars>>

mcp2515_stop_unlock ==
    /\ stop_pc = "unlock"
    /\ mcp_lock' = "free"
    /\ stop_pc' = "idle"
    /\ spi_log' = <<>>
    /\ UNCHANGED argVars
    /\ UNCHANGED <<privVars, kernVars, istVars, open_pc, open_ret, mode_pc, probe_pc, xmitVars,
                   delivered, transVars>>

(***************************************************************************)
(* mcp2515_do_set_mode (lines 514-533), the CAN core's restart hook.  The  *)
(* core calls it for a manual restart: on a running interface in bus-off   *)
(* with automatic restart disabled (the driver arms the restart timer in   *)
(* no other case), under the rtnl lock, and switches the carrier back on.  *)
(* It takes no driver lock.  The restart work it queues is compiled out,   *)
(* and the workqueue is null: a task killed in queue_work keeps the rtnl   *)
(* lock for good.                                                          *)
(***************************************************************************)
mcp2515_do_set_mode ==
    /\ up
    /\ open_pc = "idle"
    /\ stop_pc = "idle"
    /\ mode_pc = "idle"
    /\ restart_ms = 0
    /\ can_state = CAN_STATE_BUS_OFF
    /\ \E mode \in CanModes, killed \in BOOLEAN :
        IF mode = "CAN_MODE_START"
        THEN /\ stats' = [stats EXCEPT
                            !.tx_errors = clean_tx_errors(@, tx_skb, tx_len)]
             /\ StatTotal(stats', can_stats) <= MaxStatEvents
             /\ tx_skb' = NULL
             /\ tx_len' = 0
             /\ can_state' = CAN_STATE_ERROR_ACTIVE
             /\ restart_tx' = 1
             /\ after_suspend' = IF restart_ms = 0
                                 THEN AFTER_SUSPEND_RESTART ELSE after_suspend
             /\ IF killed
                THEN /\ mode_pc' = "oops"
                     /\ UNCHANGED carrier_ok
                ELSE /\ carrier_ok' = TRUE      \* netif_carrier_on, by the core
                     /\ UNCHANGED mode_pc
        ELSE /\ ~killed                        \* return -EOPNOTSUPP
             /\ UNCHANGED <<stats, tx_skb, tx_len, can_state, restart_tx,
                            after_suspend, carrier_ok, mode_pc>>
    /\ UNCHANGED argVars
    /\ UNCHANGED <<mcp_lock, force_quit, restart_ms, can_stats,
                   irq_registered, transceiver_on, queue_stopped, up, istVars,
                   open_pc, open_ret, stop_pc, probe_pc, xmitVars, ioVars,
                   transVars>>

Next ==
    \/ mcp2515_can_probe_hw
    \/ mcp2515_can_probe_register
    \/ mcp2515_can_probe_error
    \/ mcp2515_can_ist_enter
    \/ mcp2515_can_ist_lock
    \/ mcp2515_can_ist_quit
    \/ mcp2515_can_ist_pass
    \/ mcp2515_can_ist_tx
    \/ mcp2515_can_ist_unlock
    \/ mcp2515_hard_start_xmit_call
    \/ mcp2515_hard_start_xmit_store
    \/ mcp2515_hard_start_xmit_return
    \/ mcp2515_open_begin
    \/ mcp2515_open_lock
    \/ mcp2515_open_irq
    \/ mcp2515_open_hw
    \/ mcp2515_open_clean
    \/ mcp2515_open_unlock
    \/ mcp2515_open_return
    \/ mcp2515_stop_begin
    \/ mcp2515_stop_lock
    \/ mcp2515_stop_body
    \/ mcp2515_stop_unlock
    \/ mcp2515_do_set_mode

Spec == Init /\ [][Next]_vars

(***************************************************************************)
(* The line transport, mcp2515_spi_trans (lines 293-345), one clock cycle  *)
(* per step, with the callers' use of chip-select (lines 347-441).         *)
(* gpio_set_value and gpio_get_value are given the role indices GPIO_MISO  *)
(* .. GPIO_CS themselves, so those are the line numbers that move.         *)
(***************************************************************************)
\* The transfers stepped: the four register operations, the mailbox read
\* and the reset instruction.
SpiTransfers ==
    { mcp2515_read_reg(CANSTAT), mcp2515_read_2regs(CANINTF),
      mcp2515_hw_sleep, mcp2515_write_bits(CANINTF, CANINTF_TX0IF, 0),
      mcp2515_hw_rx_frame(0), Xfer(1, 1, <<INSTRUCTION_RESET>>) }
\* Bytes the chip answers with on its data-out pin.
MisoBytes == {60, 165}

\* Bit k (0 = least significant) of byte b
ByteBit(b, k) == (b \div Pow2(k)) % 2
\* if (data_out & 0x80) 1 else 0, in clock cycle j; data_out is not shifted
\* between cycles.
spi_mosi_level(out, j) == IF BitAnd(out, 128) # 0 THEN 1 ELSE 0

\* The caller fills the head of the transmit buffer and, in a register
\* operation, drives chip-select low; then calls the transport.
mcp2515_spi_trans_call ==
    /\ spi_pc = "idle"
    /\ \E x \in SpiTransfers :
        /\ spi_tx_buf' = [k \in 1..SPI_TRANSFER_BUF_LEN |->
                             IF k <= Len(x.tx) THEN x.tx[k] ELSE spi_tx_buf[k]]
        /\ spi_len' = x.len
        /\ spi_cs' = x.cs
        /\ gpio' = IF x.cs = 0 THEN [gpio EXCEPT ![GPIO_CS] = 0] ELSE gpio
    /\ spi_i' = 0
    /\ spi_pc' = "byte"
    /\ UNCHANGED argVars
    /\ UNCHANGED <<mcp_lock, privVars, kernVars, istVars, ctlVars, xmitVars,
                   ioVars, spi_rx_buf, spi_j, data_out, data_in, miso_byte>>

\* for (i = 0; i < len; i++) { data_out = priv->spi_tx_buf[i]; data_in = 0;
mcp2515_spi_trans_byte ==
    /\ spi_pc = "byte"
    /\ spi_i < spi_len
    /\ data_out' = spi_tx_buf[spi_i + 1]
    /\ data_in' = 0
    /\ spi_j' = 0
    /\ miso_byte' \in MisoBytes
    /\ spi_pc' = "bit"
    /\ UNCHANGED argVars
    /\ UNCHANGED <<mcp_lock, privVars, kernVars, istVars, ctlVars, xmitVars,
                   ioVars, spi_cs, spi_tx_buf, spi_rx_buf, spi_len, spi_i, gpio>>

\* One clock cycle (lines 320-329): clock low, data-out from the top bit
\* of data_out, which is never shifted, clock high, sample.  The chip puts
\* its answer on the line wired to its data-out pin.
mcp2515_spi_trans_bit ==
    /\ spi_pc = "bit"
    /\ spi_j < 8
    /\ gpio' = [gpio EXCEPT ![GPIO_CLK] = 1,
                            ![GPIO_MOSI] = spi_mosi_level(data_out, spi_j),
                            ![gpios[GPIO_MISO]] = ByteBit(miso_byte, 7 - spi_j)]
    /\ data_in' = BitOr(U8(Shl(data_in, 1)), gpio[GPIO_MISO])
    /\ spi_j' = spi_j + 1
    /\ UNCHANGED argVars
    /\ UNCHANGED <<mcp_lock, privVars, kernVars, istVars, ctlVars, xmitVars,
                   ioVars, spi_pc, spi_cs, spi_tx_buf, spi_rx_buf, spi_len, spi_i,
                   data_out, miso_byte>>

\* priv->spi_rx_buf[i] = data_in; }
mcp2515_spi_trans_store ==
    /\ spi_pc = "bit"
    /\ spi_j = 8
    /\ spi_rx_buf' = [spi_rx_buf EXCEPT ![spi_i + 1] = data_in]
    /\ spi_i' = spi_i + 1
    /\ spi_pc' = "byte"
    /\ UNCHANGED argVars
    /\ UNCHANGED <<mcp_lock, privVars, kernVars, istVars, ctlVars, xmitVars,
                   ioVars, spi_cs, spi_tx_buf, spi_len, spi_j, data_out, data_in,
                   miso_byte, gpio>>

\* The transport returns; a register operation drives chip-select high.
mcp2515_spi_trans_return ==
    /\ spi_pc = "byte"
    /\ spi_i = spi_len
    /\ gpio' = IF spi_cs = 0 THEN [gpio EXCEPT ![GPIO_CS] = 1] ELSE gpio
    /\ spi_cs' = 1
    /\ spi_pc' = "idle"
    /\ spi_len' = 0
    /\ spi_i' = 0
    /\ spi_j' = 0
    /\ data_out' = 0
    /\ data_in' = 0
    /\ miso_byte' = 0
    /\ UNCHANGED argVars
    /\ UNCHANGED <<mcp_lock, privVars, kernVars, istVars, ctlVars, xmitVars,
                   ioVars, spi_tx_buf, spi_rx_buf>>

NextSpi ==
    \/ mcp2515_spi_trans_call
    \/ mcp2515_spi_trans_byte
    \/ mcp2515_spi_trans_bit
    \/ mcp2515_spi_trans_store
    \/ mcp2515_spi_trans_return

InitSpi == InitDriver /\ restart_ms = 0 /\ InitTrans

SpecSpi == InitSpi /\ [][NextSpi]_vars

(***************************************************************************)
(* The handler alone on a running interface, meeting every value of the    *)
(* error-flag byte: the interface as a successful mcp2515_open leaves it,  *)
(* then interrupts only.                                                   *)
(***************************************************************************)
EflgBytes == 0..255
\* A pass that reads no receive flag: ERRIF or nothing in CANINTF, any
\* byte in EFLG.
PassReadsAnyEflag ==
    { ist_pass_read(m, ef, NoRx, NoRx, alloc_ok) :
        m \in {0, CANINTF_ERRIF}, ef \in EflgBytes, alloc_ok \in BOOLEAN }

mcp2515_can_ist_pass_any_eflag == ist_pass(PassReadsAnyEflag)

InitRunning ==
    /\ InitTrans
    /\ gpio[GPIO_MISO] = 0
    /\ mcp_lock = "free"
    /\ tx_skb = NULL
    /\ tx_len = 0
    /\ force_quit = 0
    /\ can_state = CAN_STATE_ERROR_ACTIVE
    /\ restart_ms \in RestartMsValues
    /\ restart_tx = 0
    /\ after_suspend = 0
    /\ can_stats = [error_warning |-> 0, error_passive |-> 0]
    /\ stats = [rx_packets |-> 0, rx_bytes |-> 0, rx_dropped |-> 0,
                rx_errors |-> 0, rx_over_errors |-> 0, tx_packets |-> 0,
                tx_bytes |-> 0, tx_errors |-> 0, tx_dropped |-> 0]
    /\ irq_registered = TRUE
    /\ transceiver_on = TRUE
    /\ queue_stopped = FALSE
    /\ carrier_ok = TRUE
    /\ up = TRUE
    /\ ist_pc = "idle"
    /\ intf = 0
    /\ eflag = 0
    /\ open_pc = "idle"
    /\ open_ret = "none"
    /\ stop_pc = "idle"
    /\ mode_pc = "idle"
    /\ probe_pc = "done"
    /\ xmit_pc = "idle"
    /\ xmit_skb = NULL
    /\ xmit_valid = FALSE
    /\ xmit_ret = "none"
    /\ spi_log = <<>>
    /\ delivered = <<>>

InitErr == InitRunning /\ InitArgs

NextErr ==
    \/ mcp2515_can_ist_enter
    \/ mcp2515_can_ist_lock
    \/ mcp2515_can_ist_quit
    \/ mcp2515_can_ist_pass_any_eflag
    \/ mcp2515_can_ist_tx
    \/ mcp2515_can_ist_unlock

SpecErr == InitErr /\ [][NextErr]_vars

(***************************************************************************)
(* The frame codec on its own: mcp2515_hw_tx called with a frame and a     *)
(* mailbox index, then the frame comes back in receive mailbox 0 (the chip *)
(* in loopback mode, or a peer sending the same frame) and mcp2515_hw_rx   *)
(* is called for it.                                                       *)
(***************************************************************************)
Dlcs == 0..CAN_FRAME_MAX_DATA_LEN
TxMailboxes == 0..2
SampleData(n) == [k \in 1..CAN_FRAME_MAX_DATA_LEN |-> ((n % 256) * 7 + k * 37) % 256]
\* Every standard identifier.
StdIds == 0..CAN_SFF_MASK
\* Extended identifiers: upper eleven bits and lower eighteen bits each
\* from none, every single bit, all, alternating and those of 0x1ABCDEF.
ExtSidSample == {0, 106, 1365, 2047} \cup {Pow2(b) : b \in 0..10}
ExtEidSample == {0, 87381, 249327, 262143} \cup {Pow2(b) : b \in 0..17}
ExtIds == {Shl(s, 18) + e : s \in ExtSidSample, e \in ExtEidSample}
CanFrame(id, eff, r, d) ==
    [can_id |-> id, eff |-> eff, rtr |-> r, err |-> FALSE, can_dlc |-> d,
     data |-> SampleData(id + d)]

\* The receive-mailbox images that hold the frame a loaded transmit image
\* holds.  The two layouts have the same offsets (lines 140-146, 163-169)
\* and the same fields, but for the remote request of a standard frame:
\* the transmit layout has it in the DLC byte (DLC_RTR_SHIFT), the receive
\* layout in RXBSIDL_SRR, with the DLC byte's bit left open.
RxImagesOf(tx) ==
    LET img == [k \in 1..SPI_TRANSFER_BUF_LEN |->
                   IF k = RXBCTRL_OFF + 1 \/ k > Len(tx) THEN 0 ELSE tx[k]]
    IN  IF /\ BitAnd(tx[TXBSIDL_OFF + 1], Shl(1, SIDL_EXIDE_SHIFT)) = 0
           /\ BitAnd(tx[TXBDLC_OFF + 1], Shl(1, DLC_RTR_SHIFT)) # 0
        THEN { [img EXCEPT
                  ![RXBSIDL_OFF + 1] = BitOr(@, RXBSIDL_SRR),
                  ![RXBDLC_OFF + 1] =
                      IF dlc_rtr THEN @ ELSE @ - Shl(1, DLC_RTR_SHIFT)] :
               dlc_rtr \in BOOLEAN }
        ELSE {img}

mcp2515_hw_tx_call ==
    /\ hw_pc = "hw_tx"
    /\ hw_pc' = "hw_tx_done"
    /\ \E xfers \in {mcp2515_hw_tx(can_frame, tx_buf_idx)} :
           /\ spi_log' = xfers
           /\ spi_tx_buf' =
                  [k \in 1..SPI_TRANSFER_BUF_LEN |->
                      IF k = 1 THEN xfers[2].tx[1]
                      ELSE IF k <= xfers[1].len THEN xfers[1].tx[k]
                      ELSE spi_tx_buf[k]]
    /\ UNCHANGED <<mcp_lock, privVars, kernVars, istVars, ctlVars, xmitVars,
                   delivered, spi_pc, spi_cs, spi_rx_buf, spi_len, spi_i,
                   spi_j, data_out, data_in, miso_byte, gpio, can_frame,
                   tx_buf_idx, bittiming>>

mcp2515_hw_rx_call ==
    /\ hw_pc = "hw_tx_done"
    /\ hw_pc' = "hw_rx_done"
    /\ \E img \in RxImagesOf(spi_log[1].tx) :
          \E r \in {mcp2515_hw_rx(stats, 0,
                       [alloc_ok |-> TRUE, img |-> img,
                        frame |-> mcp2515_hw_rx_decode(img)])} :
              /\ stats' = r.stats
              /\ spi_log' = spi_log \o r.xfers
              /\ delivered' = r.frames
              /\ spi_rx_buf' = img
    /\ UNCHANGED <<mcp_lock, tx_skb, tx_len, force_quit, can_state, restart_ms,
                   restart_tx, after_suspend, can_stats, kernVars, istVars,
                   ctlVars, xmitVars, spi_pc, spi_cs, spi_tx_buf, spi_len,
                   spi_i, spi_j, data_out, data_in, miso_byte, gpio,
                   can_frame, tx_buf_idx, bittiming>>

InitCodec ==
    /\ InitRunning
    /\ restart_ms = 0
    /\ hw_pc = "hw_tx"
    /\ \E eff \in BOOLEAN, r \in BOOLEAN, d \in Dlcs :
          \E id \in (IF eff THEN ExtIds ELSE StdIds) :
              can_frame = CanFrame(id, eff, r, d)
    \* mailbox 0 is the one line 721 names; the others with two-byte frames
    /\ tx_buf_idx \in (IF can_frame.can_dlc = 2 THEN TxMailboxes ELSE {0})
    /\ bittiming = CHOOSE bt \in BtConfigs : bt.sjw = 1

NextCodec ==
    \/ mcp2515_hw_tx_call
    \/ mcp2515_hw_rx_call

SpecCodec == InitCodec /\ [][NextCodec]_vars

(***************************************************************************)
(* mcp2515_do_set_bittiming on its own, for every bit timing whose fields  *)
(* fit the chip's: the limits of mcp2515_bittiming_const (lines 210-220)   *)
(* for sjw, brp and phase_seg2, and the width of the CNF2 fields for       *)
(* phase_seg1 and prop_seg.                                                *)
(***************************************************************************)
sjw_max == 4
brp_min == 1
brp_max == 64
tseg2_min == 2
tseg2_max == 8
\* PRSEG is below PHSEG1 (CNF2_PS1_SHIFT), PHSEG1 below SAM.
prop_seg_max == Pow2(CNF2_PS1_SHIFT)
phase_seg1_max == CNF2_SAM \div Pow2(CNF2_PS1_SHIFT)

mcp2515_do_set_bittiming_call ==
    /\ hw_pc = "do_set_bittiming"
    /\ hw_pc' = "do_set_bittiming_done"
    /\ spi_log' = mcp2515_do_set_bittiming(bittiming)
    /\ UNCHANGED <<mcp_lock, privVars, kernVars, istVars, ctlVars, xmitVars,
                   delivered, transVars, can_frame, tx_buf_idx, bittiming>>

InitBt ==
    /\ InitRunning
    /\ restart_ms = 0
    /\ hw_pc = "do_set_bittiming"
    /\ can_frame = NoFrame
    /\ tx_buf_idx = 0
    /\ \E sjw \in 1..sjw_max, brp \in brp_min..brp_max,
          phase_seg1 \in 1..phase_seg1_max, prop_seg \in 1..prop_seg_max,
          phase_seg2 \in tseg2_min..tseg2_max, samples3 \in BOOLEAN :
          bittiming = [sjw |-> sjw, brp |-> brp, phase_seg1 |-> phase_seg1,
                       prop_seg |-> prop_seg, phase_seg2 |-> phase_seg2,
                       samples3 |-> samples3]

NextBt == mcp2515_do_set_bittiming_call

SpecBt == InitBt /\ [][NextBt]_vars

(***************************************************************************)
(* Properties.                                                             *)
(***************************************************************************)
\* A handler step that runs one pass up to the exits of the loop.
IstPassStep == ist_pc = "loop" /\ ist_pc' \in {"tx", "unlock"} /\ force_quit = 0
\* A handler step that runs the transmit-completion part of a pass.
IstTxStep == ist_pc = "tx" /\ ist_pc' = "loop"
\* The step in which a transmit submission tests the slot.
XmitTestStep == xmit_pc = "idle" /\ xmit_pc' # "idle"

\* C1: in the k-th clock cycle of an outbound byte b (k = 0..7 in clock
\* order) the data-out line carries bit (7-k) of b: after spi_j cycles of
\* the byte, the line holds the bit of cycle spi_j - 1.
C1_DataOutMsbFirst ==
    (spi_pc = "bit" /\ spi_j >= 1) =>
        gpio[GPIO_MOSI] = ByteBit(spi_tx_buf[spi_i + 1], 7 - (spi_j - 1))

\* C2: a transmit submission that finds the slot occupied (a frame held or
\* a length recorded) returns busy in that same step, whoever holds the
\* driver lock, and leaves the slot, the link state, the queue-stopped
\* status and the lock as they were.
C2_BusyLeavesSlotAlone ==
    [][ (XmitTestStep /\ (tx_skb # NULL \/ tx_len # 0)) =>
            /\ xmit_pc' = "ret"
            /\ xmit_ret' = "NETDEV_TX_BUSY"
            /\ tx_skb' = tx_skb
            /\ tx_len' = tx_len
            /\ can_state' = can_state
            /\ queue_stopped' = queue_stopped
            /\ mcp_lock' = mcp_lock ]_vars

\* C2 happens: a submission was turned away as busy while the slot held a
\* frame and another context held the driver lock.
C2_Witness ==
    /\ xmit_pc = "ret"
    /\ xmit_ret = "NETDEV_TX_BUSY"
    /\ tx_skb # NULL
    /\ mcp_lock = "ist"

\* C3: after the part of a handler pass that processes a transmit-complete
\* flag read set, the slot is empty (no frame held, no length recorded)
\* and the queue is awake, so that the next valid submission is accepted.
C3_CompletionFreesSlot ==
    [][ (IstTxStep /\ (intf \div CANINTF_TX0IF) % 8 # 0) =>
            /\ tx_skb' = NULL
            /\ tx_len' = 0
            /\ ~queue_stopped' ]_vars

\* C4: once a handler pass has computed bus-off with the restart interval
\* 0 (force_quit is set and nothing has reopened the interface), a
\* submission of a valid frame is turned away.
C4_BusOffRejectsSubmissions ==
    [][ (XmitTestStep /\ force_quit = 1 /\ restart_ms = 0 /\ xmit_valid') =>
            /\ xmit_pc' = "ret"
            /\ xmit_ret' = "NETDEV_TX_BUSY" ]_vars

\* C5: every step that changes the slot (tx_skb, tx_len) or the link state
\* is taken by a context that holds the driver lock.
C5_SlotAndStateUnderLock ==
    [][ (tx_skb' # tx_skb \/ tx_len' # tx_len \/ can_state' # can_state) =>
            \/ (ist_pc' # ist_pc /\ mcp_lock = "ist")
            \/ (open_pc' # open_pc /\ mcp_lock = "open")
            \/ (stop_pc' # stop_pc /\ mcp_lock = "stop") ]_vars

\* C6: for every error-flag byte a pass reads, the new link state is
\* bus-off if TXBO is set; else error-passive if TXEP or RXEP is set; else
\* error-warning if TXWAR or RXWAR is set; else error-active.  The two
\* overflow bits and EWARN take no part.
C6_ErrorStatePrecedence ==
    [][ IstPassStep =>
            can_state' =
                IF (eflag' \div EFLG_TXBO) % 2 = 1 THEN CAN_STATE_BUS_OFF
                ELSE IF (eflag' \div EFLG_TXEP) % 2 = 1
                        \/ (eflag' \div EFLG_RXEP) % 2 = 1
                     THEN CAN_STATE_ERROR_PASSIVE
                ELSE IF (eflag' \div EFLG_TXWAR) % 2 = 1
                        \/ (eflag' \div EFLG_RXWAR) % 2 = 1
                     THEN CAN_STATE_ERROR_WARNING
                ELSE CAN_STATE_ERROR_ACTIVE ]_vars

\* C6 happens: a pass read TXBO together with RXWAR and the state is
\* bus-off.
C6_Witness ==
    /\ ist_pc \in {"tx", "unlock"}
    /\ eflag = EFLG_TXBO + EFLG_RXWAR
    /\ can_state = CAN_STATE_BUS_OFF

\* C7: no step lowers the error-warning or the error-passive counter; a
\* pass raises the warning counter by 1 exactly when the state was
\* error-active and becomes warning, passive or bus-off, and the passive
\* counter by 1 exactly when the state was error-active or error-warning
\* and becomes passive or bus-off.
C7_TransitionCounters ==
    [][ /\ can_stats'.error_warning >= can_stats.error_warning
        /\ can_stats'.error_passive >= can_stats.error_passive
        /\ IstPassStep =>
            /\ can_stats'.error_warning = can_stats.error_warning +
                 (IF can_state = CAN_STATE_ERROR_ACTIVE
                     /\ can_state' \in {CAN_STATE_ERROR_WARNING,
                                        CAN_STATE_ERROR_PASSIVE,
                                        CAN_STATE_BUS_OFF}
                  THEN 1 ELSE 0)
            /\ can_stats'.error_passive = can_stats.error_passive +
                 (IF can_state \in {CAN_STATE_ERROR_ACTIVE,
                                    CAN_STATE_ERROR_WARNING}
                     /\ can_state' \in {CAN_STATE_ERROR_PASSIVE,
                                        CAN_STATE_BUS_OFF}
                  THEN 1 ELSE 0) ]_vars

\* C7 happens: the state went from error-active to error-passive in one
\* pass, which counted one warning and one passive transition.
C7_Witness ==
    /\ ist_pc \in {"tx", "unlock"}
    /\ can_state = CAN_STATE_ERROR_PASSIVE
    /\ can_stats.error_warning = 1
    /\ can_stats.error_passive = 1

\* Masks under which the chip's bit-modify leaves both receive flags of any
\* register value as they were.
RxPreservingMasks ==
    { mk \in 0..255 :
        \A old \in 0..255 :
            BitModify(old, mk, 0) % 4 = old % 4 }
\* The bit-modify transfers on CANINTF among those of the current pass.
CanintfModifies ==
    SelectSeq(spi_log, LAMBDA x : /\ Len(x.tx) = 4
                                  /\ x.tx[1] = INSTRUCTION_BIT_MODIFY
                                  /\ x.tx[2] = CANINTF)

\* C8: the bit-modify a pass issues on CANINTF has as its mask exactly the
\* error and transmit-complete flags the pass read set, and value 0 (none
\* is issued when no such flag was read); the mask holds neither receive
\* flag, so the chip leaves RX0IF and RX1IF as they were.
C8_MaskedClear ==
    ist_pc \in {"tx", "unlock"} =>
        LET flags == ((intf \div CANINTF_TX0IF) % 16) * CANINTF_TX0IF
        IN  /\ Len(CanintfModifies) = (IF flags # 0 THEN 1 ELSE 0)
            /\ \A k \in 1..Len(CanintfModifies) :
                /\ CanintfModifies[k].tx[3] = flags
                /\ CanintfModifies[k].tx[4] = 0
                /\ CanintfModifies[k].tx[3] % 4 = 0
                /\ CanintfModifies[k].tx[3] \in RxPreservingMasks

\* C8 happens: a pass read ERRIF, TX1IF and RX0IF and cleared the first two.
C8_Witness ==
    /\ ist_pc = "tx"
    /\ intf = CANINTF_ERRIF + CANINTF_TX1IF + CANINTF_RX0IF
    /\ Len(CanintfModifies) = 1
    /\ CanintfModifies[1].tx[3] = CANINTF_ERRIF + CANINTF_TX1IF

\* C9: when open() is about to return a failure of the interrupt request,
\* of the reset check or of the mode entry, the handler is not registered,
\* the transceiver is off and open() no longer holds the driver lock.
C9_OpenFailureLeavesNothingLive ==
    (open_pc = "ret" /\ open_ret \in {"EIRQ", "ENODEV", "EBUSY"}) =>
        /\ ~irq_registered
        /\ ~transceiver_on
        /\ mcp_lock # "open"

\* C10: the body of stop() writes 0 to the interrupt-enable register,
\* empties the slot, powers the transceiver down, marks the link stopped
\* and raises the transmit-error counter by 1 exactly if the slot was
\* occupied; all of it still holds when stop() returns, and the counter
\* does not move again before it does.
C10_StopPostconditions ==
    [][ /\ (stop_pc = "body" /\ stop_pc' = "unlock") =>
            /\ stats'.tx_errors = stats.tx_errors +
                 (IF tx_skb # NULL \/ tx_len # 0 THEN 1 ELSE 0)
            /\ \E k \in 1..Len(spi_log') :
                 spi_log'[k] = mcp2515_write_reg(CANINTE, 0)
        /\ (stop_pc = "unlock" /\ stop_pc' = "idle") =>
            /\ tx_skb' = NULL
            /\ tx_len' = 0
            /\ can_state' = CAN_STATE_STOPPED
            /\ ~transceiver_on'
            /\ stats'.tx_errors = stats.tx_errors
        /\ (stop_pc = "lock" /\ stop_pc' = "lock") =>
            /\ tx_skb' = tx_skb
            /\ tx_len' = tx_len
            /\ stats'.tx_errors = stats.tx_errors
        /\ (stop_pc = "unlock" /\ stop_pc' = "unlock") =>
            /\ tx_skb' = NULL
            /\ stats'.tx_errors = stats.tx_errors ]_vars

\* C10 happens: stop() ran with a frame in the slot and is about to
\* return, the slot empty, one transmit error counted.
C10_Witness ==
    /\ stop_pc = "unlock"
    /\ stats.tx_errors = 1
    /\ tx_skb = NULL
    /\ tx_len = 0
    /\ can_state = CAN_STATE_STOPPED
    /\ ~transceiver_on

\* A step in which the stepping context calls the transport.
TransferStep == spi_log' # spi_log /\ spi_log' # <<>>

\* C11 as stated: every step that calls the transport, the probe's
\* included, is taken by the context that holds the driver lock.
C11_TransportUnderLock ==
    [][ TransferStep =>
            \/ (ist_pc' # ist_pc /\ mcp_lock = "ist")
            \/ (open_pc' # open_pc /\ mcp_lock = "open")
            \/ (stop_pc' # stop_pc /\ mcp_lock = "stop")
            \/ (probe_pc' # probe_pc /\ mcp_lock = "probe") ]_vars

\* C11, amended: every step that calls the transport is taken by the
\* context that holds the driver lock, except the chip probe, which calls
\* it without the lock before the device is registered, when no handler,
\* open, stop, restart or submission exists; so no two transfers overlap.
C11_TransportUnderLockOrProbe ==
    [][ TransferStep =>
            \/ (ist_pc' # ist_pc /\ mcp_lock = "ist")
            \/ (open_pc' # open_pc /\ mcp_lock = "open")
            \/ (stop_pc' # stop_pc /\ mcp_lock = "stop")
            \/ /\ probe_pc = "probe"
               /\ probe_pc' # probe_pc
               /\ mcp_lock = "free"
               /\ ~irq_registered
               /\ ~up
               /\ ist_pc = "idle"
               /\ open_pc = "idle"
               /\ stop_pc = "idle"
               /\ mode_pc = "idle"
               /\ xmit_pc = "idle" ]_vars

\* C11 happens: the probe has reset the chip and read CANSTAT and CANCTRL
\* with the lock free.
C11_Witness ==
    /\ probe_pc = "register"
    /\ Len(spi_log) = 3
    /\ mcp_lock = "free"

\* C12: a standard frame given to mcp2515_hw_tx and read back by
\* mcp2515_hw_rx from a receive-mailbox image holding the same frame is
\* delivered with the same identifier, remote flag, DLC and first DLC data
\* bytes, and as a standard frame.
C12_StandardRoundTrip ==
    (hw_pc = "hw_rx_done" /\ ~can_frame.eff) =>
        /\ Len(delivered) = 1
        /\ delivered[1].can_id = can_frame.can_id
        /\ delivered[1].rtr = can_frame.rtr
        /\ delivered[1].can_dlc = can_frame.can_dlc
        /\ delivered[1].data = SubSeq(can_frame.data, 1, can_frame.can_dlc)
        /\ ~delivered[1].eff

\* C12 happens: the standard remote frame 0x123 with DLC 2 came back.
C12_Witness ==
    /\ hw_pc = "hw_rx_done"
    /\ ~can_frame.eff
    /\ can_frame.rtr
    /\ can_frame.can_id = 291
    /\ can_frame.can_dlc = 2
    /\ delivered[1].rtr
    /\ BitAnd(spi_rx_buf[RXBSIDL_OFF + 1], RXBSIDL_SRR) # 0

\* C13: for a standard frame the buffer mcp2515_hw_tx loads has
\* SIDH = id >> 3, SIDL = (id mod 8) << 5 (so EXIDE and the EID bits are
\* clear), DLC byte = d + 64 * r, first byte 0x40 + 2 * mailbox index, and
\* exactly d data bytes after the six header bytes; 0x123 with d = 2 gives
\* 0x24, 0x60 and 0x02.
C13_StandardPacking ==
    (hw_pc # "hw_tx" /\ ~can_frame.eff) =>
        LET buf == spi_log[1].tx
            id  == can_frame.can_id
            d   == can_frame.can_dlc
        IN  /\ buf[TXBSIDH_OFF + 1] = id \div 8
            /\ buf[TXBSIDL_OFF + 1] = (id % 8) * 32
            /\ buf[TXBDLC_OFF + 1] = d + 64 * (IF can_frame.rtr THEN 1 ELSE 0)
            /\ buf[TXBCTRL_OFF + 1] = 64 + 2 * tx_buf_idx
            /\ Len(buf) = 6 + d
            /\ spi_log[1].len = 6 + d
            /\ SubSeq(buf, 7, 6 + d) = SubSeq(can_frame.data, 1, d)
            /\ (id = 291 /\ d = 2 /\ ~can_frame.rtr) =>
                   /\ buf[TXBSIDH_OFF + 1] = 36
                   /\ buf[TXBSIDL_OFF + 1] = 96
                   /\ buf[TXBDLC_OFF + 1] = 2

\* C13 happens: 0x123 with two data bytes was loaded into mailbox 1.
C13_Witness ==
    /\ hw_pc = "hw_tx_done"
    /\ ~can_frame.eff
    /\ ~can_frame.rtr
    /\ can_frame.can_id = 291
    /\ can_frame.can_dlc = 2
    /\ tx_buf_idx = 1
    /\ SubSeq(spi_log[1].tx, 1, 6) = <<66, 36, 96, 1, 35, 2>>

\* C14: for an extended frame the SIDL byte mcp2515_hw_tx loads has the
\* IDE bit set, and mcp2515_hw_rx reading the same SIDH/SIDL/EID8/EID0
\* bytes delivers the same 29-bit identifier, extended, below 2^29.
C14_ExtendedRoundTrip ==
    (hw_pc = "hw_rx_done" /\ can_frame.eff) =>
        /\ BitAnd(spi_log[1].tx[TXBSIDL_OFF + 1], RXBSIDL_IDE) # 0
        /\ SubSeq(spi_rx_buf, 2, 5) = SubSeq(spi_log[1].tx, 2, 5)
        /\ Len(delivered) = 1
        /\ delivered[1].can_id = can_frame.can_id
        /\ delivered[1].eff
        /\ delivered[1].can_id < Pow2(29)

\* C14 happens: the extended identifier 0x1ABCDEF came back.
C14_Witness ==
    /\ hw_pc = "hw_rx_done"
    /\ can_frame.eff
    /\ can_frame.can_id = 28036591
    /\ delivered[1].can_id = 28036591
    /\ delivered[1].eff

\* C15: mcp2515_do_set_bittiming writes CNF1 = ((sjw-1) << 6) + (brp-1),
\* CNF2 = 0x80 + (0x40 if triple sampling) + ((phase_seg1-1) << 3)
\* + (prop_seg-1), and modifies CNF3 under mask 0x07 with phase_seg2-1;
\* no field runs into its neighbour, so each field plus 1 is its input.
C15_BitTimingEncoding ==
    hw_pc = "do_set_bittiming_done" =>
        LET bt   == bittiming
            sam  == IF bt.samples3 THEN 1 ELSE 0
            cnf1 == spi_log[1].tx[3]
            cnf2 == spi_log[2].tx[3]
            cnf3 == spi_log[3].tx[4]
        IN  /\ Len(spi_log) = 3
            /\ spi_log[1] = Xfer(0, 3, <<INSTRUCTION_WRITE, CNF1,
                                        (bt.sjw - 1) * 64 + (bt.brp - 1)>>)
            /\ spi_log[2] = Xfer(0, 3, <<INSTRUCTION_WRITE, CNF2,
                                        128 + 64 * sam
                                        + (bt.phase_seg1 - 1) * 8
                                        + (bt.prop_seg - 1)>>)
            /\ spi_log[3] = Xfer(0, 4, <<INSTRUCTION_BIT_MODIFY, CNF3, 7,
                                        bt.phase_seg2 - 1>>)
            /\ (cnf1 \div 64) + 1 = bt.sjw
            /\ (cnf1 % 64) + 1 = bt.brp
            /\ cnf2 \div 128 = 1
            /\ (cnf2 \div 64) % 2 = sam
            /\ ((cnf2 \div 8) % 8) + 1 = bt.phase_seg1
            /\ (cnf2 % 8) + 1 = bt.prop_seg
            /\ BitModify(0, 7, cnf3) + 1 = bt.phase_seg2
            /\ BitModify(255, 7, cnf3) = 248 + bt.phase_seg2 - 1

\* C15 happens: the largest value of every field was written.
C15_Witness ==
    /\ hw_pc = "do_set_bittiming_done"
    /\ bittiming.sjw = 4
    /\ bittiming.brp = 64
    /\ bittiming.phase_seg1 = 8
    /\ bittiming.prop_seg = 8
    /\ bittiming.phase_seg2 = 8
    /\ bittiming.samples3
    /\ spi_log[1].tx[3] = 255
    /\ spi_log[2].tx[3] = 255
    /\ spi_log[3].tx[4] = 7

\* A step of the handler thread.
IstStep == ist_pc' # ist_pc

\* C16: no pass begins while force_quit is set.  With the flag set, the
\* handler at its loop check goes to its return without a register
\* access, a delivery or a change of driver state; an invocation that
\* starts later does nothing else; one caught inside a pass only finishes
\* that pass.  Only open(), holding the lock, clears the flag.
C16_ForceQuitBoundsHandler ==
    [][ /\ (IstStep /\ force_quit # 0 /\ ist_pc = "loop") =>
               ist_pc' = "unlock"
        /\ (IstStep /\ force_quit # 0 /\ ist_pc \in {"idle", "lock", "loop"}) =>
               /\ UNCHANGED <<privVars, kernVars, intf, eflag>>
               /\ spi_log' = spi_log
               /\ delivered' = delivered
        /\ (IstStep /\ force_quit # 0 /\ ist_pc = "tx") => ist_pc' = "loop"
        /\ (IstStep /\ force_quit # 0 /\ ist_pc = "unlock") =>
               /\ ist_pc' = "idle"
               /\ UNCHANGED <<privVars, kernVars>>
        /\ (force_quit # 0 /\ force_quit' = 0) =>
               (open_pc' # open_pc /\ mcp_lock = "open") ]_vars

\* C16 happens: stop() has set the flag and waits for the lock; the
\* handler, which held it, found the flag at its loop check and returns
\* without having touched the chip.
C16_Witness ==
    /\ force_quit = 1
    /\ stop_pc = "lock"
    /\ ist_pc = "unlock"
    /\ mcp_lock = "ist"
    /\ spi_log = <<>>
    /\ delivered = <<>>

\* C17: the handler leaves its loop only from the loop check with
\* force_quit set, from a pass that computed bus-off with automatic restart
\* disabled, or from a pass whose read of CANINTF showed no receive,
\* transmit or error flag; it returns only after leaving the loop.
C17_RunToQuiescence ==
    [][ /\ (ist_pc # "unlock" /\ ist_pc' = "unlock") =>
               /\ ist_pc = "loop"
               /\ \/ force_quit # 0
                  \/ (can_state' = CAN_STATE_BUS_OFF /\ restart_ms = 0)
                  \/ BitAnd(intf', CANINTF_RX + CANINTF_TX + CANINTF_ERR) = 0
        /\ (ist_pc # "idle" /\ ist_pc' = "idle") => ist_pc = "unlock"
        /\ (ist_pc = "tx" /\ IstStep) => ist_pc' = "loop" ]_vars

\* C17 happens: an invocation delivered a frame in one pass, read nothing
\* pending in the next, and returns.
C17_Witness ==
    /\ ist_pc = "unlock"
    /\ force_quit = 0
    /\ intf = 0
    /\ can_state # CAN_STATE_BUS_OFF
    /\ stats.rx_packets > 0
    /\ spi_log # <<>>
    /\ spi_log[1] = mcp2515_read_2regs(CANINTF)

\* A pass that reads TXBO while automatic restart is disabled, and the
\* return of the invocation it ends.
TerminalPassStep ==
    /\ ist_pc = "loop"
    /\ IstStep
    /\ force_quit = 0
    /\ restart_ms = 0
    /\ BitAnd(eflag', EFLG_TXBO) # 0
TerminalReturnStep ==
    /\ ist_pc = "unlock"
    /\ IstStep
    /\ spi_log # <<>>
    /\ spi_log[Len(spi_log)] = mcp2515_hw_sleep
\* What such a pass does besides the link state: the sleep request is the
\* last write, force_quit is set, and the transmit-completion part is
\* skipped.
TerminalPassEffects ==
    /\ force_quit' = 1
    /\ spi_log'[Len(spi_log')] = mcp2515_hw_sleep
    /\ ist_pc' = "unlock"
    /\ stats'.tx_packets = stats.tx_packets
    /\ stats'.tx_bytes = stats.tx_bytes
    /\ tx_len' = tx_len
    /\ queue_stopped' = queue_stopped

\* C18 as stated: after a pass that computed bus-off with automatic
\* restart disabled the link state is stopped when the invocation ends,
\* the sleep request has been written, force_quit is set, and the pass did
\* no transmit-completion processing.
C18_TerminalBusOffStopped ==
    [][ /\ TerminalPassStep => TerminalPassEffects
        /\ TerminalReturnStep =>
               (can_state = CAN_STATE_STOPPED /\ force_quit = 1) ]_vars

\* C18, amended: such a pass leaves the link state bus-off with the
\* carrier off, has written the sleep request last, has set force_quit and
\* did no transmit-completion processing; when the invocation ends
\* force_quit is still set and the link state is not stopped.
C18_TerminalBusOff ==
    [][ /\ TerminalPassStep =>
               /\ TerminalPassEffects
               /\ can_state' = CAN_STATE_BUS_OFF
               /\ ~carrier_ok'
        /\ TerminalReturnStep =>
               (can_state # CAN_STATE_STOPPED /\ force_quit = 1) ]_vars

\* C18 happens: the pass read TXBO together with a transmit-complete flag.
C18_Witness ==
    /\ ist_pc = "unlock"
    /\ restart_ms = 0
    /\ BitAnd(eflag, EFLG_TXBO) # 0
    /\ BitAnd(intf, CANINTF_TX) # 0
    /\ can_state = CAN_STATE_BUS_OFF
    /\ force_quit = 1
    /\ spi_log[Len(spi_log)] = mcp2515_hw_sleep

\* The overflow flags in an error-flag byte, and the error frames among
\* delivered ones that carry the receive-overflow marker.
OverflowFlags(ef) ==
    (IF BitAnd(ef, EFLG_RX0OVR) # 0 THEN 1 ELSE 0)
    + (IF BitAnd(ef, EFLG_RX1OVR) # 0 THEN 1 ELSE 0)
ErrorFrames(frames) == {i \in DOMAIN frames : frames[i].err}
OverflowMarked(f) ==
    /\ BitAnd(f.can_id, CAN_ERR_CRTL) # 0
    /\ BitAnd(f.data[2], CAN_ERR_CRTL_RX_OVERFLOW) # 0

\* C19 as stated: every pass whose error-flag byte has RX0OVR or RX1OVR
\* set adds one to rx_errors and to rx_over_errors per flag and delivers an
\* error frame with the receive-overflow marker.
C19_OverflowAccounting ==
    [][ (IstPassStep /\ OverflowFlags(eflag') > 0) =>
            /\ stats'.rx_errors = stats.rx_errors + OverflowFlags(eflag')
            /\ stats'.rx_over_errors
                   = stats.rx_over_errors + OverflowFlags(eflag')
            /\ \E i \in ErrorFrames(delivered') :
                   OverflowMarked(delivered'[i]) ]_vars

\* C19, amended: a pass that read ERRIF adds one to rx_errors and to
\* rx_over_errors per overflow flag in its error-flag byte, and the error
\* frame it delivers, if one could be allocated, carries the
\* receive-overflow marker exactly when an overflow flag was set; a pass
\* that did not read ERRIF counts nothing and delivers no error frame.
C19_OverflowAccountingUnderErrif ==
    [][ IstPassStep =>
            LET n == IF BitAnd(intf', CANINTF_ERRIF) # 0
                     THEN OverflowFlags(eflag') ELSE 0
            IN  /\ stats'.rx_errors = stats.rx_errors + n
                /\ stats'.rx_over_errors = stats.rx_over_errors + n
                /\ \A i \in ErrorFrames(delivered') :
                       /\ BitAnd(intf', CANINTF_ERRIF) # 0
                       /\ OverflowMarked(delivered'[i]) <=> n > 0 ]_vars

\* C19 happens: a pass read ERRIF with both overflow flags, counted two
\* and delivered the marked error frame.
C19_Witness ==
    /\ ist_pc = "tx"
    /\ BitAnd(intf, CANINTF_ERRIF) # 0
    /\ OverflowFlags(eflag) = 2
    /\ stats.rx_errors = 2
    /\ stats.rx_over_errors = 2
    /\ Len(delivered) = 1
    /\ OverflowMarked(delivered[1])

\* C20: a pass delivers no error frame if it did not read ERRIF, and
\* exactly one if it read ERRIF and alloc_can_err_skb succeeds, whatever
\* the error-flag byte, zero included.
C20_OneErrorFramePerErrif ==
    [][ IstPassStep =>
            LET errif == BitAnd(intf', CANINTF_ERRIF) # 0
                sent(alloc_ok) ==
                    ist_pass_read(intf', eflag', NoRx, NoRx,
                                  alloc_ok).err_frames
            IN  /\ ~errif => ErrorFrames(delivered') = {}
                /\ Cardinality(ErrorFrames(delivered')) <= 1
                /\ \A alloc_ok \in BOOLEAN :
                       Len(sent(alloc_ok))
                           = IF errif /\ alloc_ok THEN 1 ELSE 0
                /\ \E alloc_ok \in BOOLEAN :
                       delivered' = sent(alloc_ok) ]_vars

\* C20 happens: ERRIF was read with no error flag set, and one error
\* frame, without class bits, was delivered.
C20_Witness ==
    /\ ist_pc = "tx"
    /\ intf = CANINTF_ERRIF
    /\ eflag = 0
    /\ Len(delivered) = 1
    /\ delivered[1].err
    /\ delivered[1].can_id = 0

\* Among delivered frames, the received ones (not error frames); the
\* read-mailbox transfers among logged ones; and the receive-ready flags
\* in a CANINTF value.
DataFrames(frames) == {i \in DOMAIN frames : ~frames[i].err}
MailboxReads(log) ==
    {i \in DOMAIN log : log[i] \in {mcp2515_hw_rx_frame(0),
                                    mcp2515_hw_rx_frame(1)}}
RECURSIVE DataBytes(_)
DataBytes(frames) ==
    IF frames = <<>> THEN 0
    ELSE (IF frames[1].err THEN 0 ELSE frames[1].can_dlc)
         + DataBytes(Tail(frames))
RxFlags(m) ==
    (IF BitAnd(m, CANINTF_RX0IF) # 0 THEN 1 ELSE 0)
    + (IF BitAnd(m, CANINTF_RX1IF) # 0 THEN 1 ELSE 0)

\* C21: in a pass, each receive-ready mailbox whose buffer cannot be
\* allocated adds exactly one to rx_dropped and nothing else: the frames
\* delivered and the packets counted are those of the other mailboxes, the
\* bytes counted are theirs, and an error frame is delivered only if ERRIF
\* was read.  With every allocation failing, no frame is delivered and
\* rx_packets and rx_bytes are unchanged.
C21_RxAllocFailureSilentDrop ==
    [][ IstPassStep =>
            LET drops == stats'.rx_dropped - stats.rx_dropped
                got   == DataFrames(delivered')
            IN  /\ drops \in 0..RxFlags(intf')
                /\ Cardinality(got) = RxFlags(intf') - drops
                /\ stats'.rx_packets = stats.rx_packets + Cardinality(got)
                /\ stats'.rx_bytes
                       = (stats.rx_bytes + DataBytes(delivered')) % UlongMod
                /\ (ErrorFrames(delivered') # {}) =>
                       BitAnd(intf', CANINTF_ERRIF) # 0 ]_vars

\* C21 happens: a pass read both receive flags and no ERRIF, could
\* allocate for neither, and counted two drops.
C21_Witness ==
    /\ ist_pc = "tx"
    /\ intf = CANINTF_RX0IF + CANINTF_RX1IF
    /\ stats.rx_dropped = 2
    /\ stats.rx_packets = 0
    /\ stats.rx_bytes = 0
    /\ delivered = <<>>
    /\ MailboxReads(spi_log) = {}

\* C22: with automatic restart enabled, a handler pass that starts with
\* the link state bus-off leaves it bus-off.
C22_BusOffPersistsAcrossPasses ==
    [][ (IstPassStep /\ restart_ms # 0 /\ can_state = CAN_STATE_BUS_OFF) =>
            can_state' = CAN_STATE_BUS_OFF ]_vars

\* C23: open() never waits in free_irq, holding the driver lock, for a
\* handler invocation that is itself waiting for that lock; from every
\* state in which open() is inside mcp2515_open_clean some step of open() or
\* of the handler is possible.
C23_OpenNeverWaitsOnBlockedHandler ==
    (open_pc = "clean" /\ mcp_lock = "open") =>
        (ENABLED mcp2515_open_clean \/ ist_pc # "lock")

\* C24: no step of the driver lowers the transmitted-packet counter or the
\* transmitted-byte counter.
C24_TxStatisticsMonotonic ==
    [][ /\ stats'.tx_packets >= stats.tx_packets
        /\ stats'.tx_bytes >= stats.tx_bytes ]_vars

\* C25: every transfer the driver makes runs with chip-select driven low
\* by the operation that makes it.
C25_ChipSelectFramesEveryTransfer ==
    \A i \in DOMAIN spi_log : spi_log[i].cs = 0

\* C26: a pass issues one read-mailbox transfer for every receive-ready
\* flag it read, so that each mailbox it accounted for is freed.
C26_EveryReadyMailboxRead ==
    [][ IstPassStep =>
            Cardinality(MailboxReads(spi_log')) = RxFlags(intf') ]_vars

\* C27: when stop() returns, the interrupt handler the matching open()
\* registered has been released.
C27_StopReleasesInterrupt ==
    [][ (stop_pc = "unlock" /\ stop_pc' = "idle") => ~irq_registered' ]_vars

\* C28: a line whose level changes during a transfer is one of the lines
\* the table gpios assigns to data-in, data-out, clock and chip-select,
\* the lines reserved at probe time.
C28_TransportDrivesReservedLines ==
    [][ \A l \in DOMAIN gpio :
            gpio'[l] # gpio[l] =>
                l \in {gpios[GPIO_MISO], gpios[GPIO_MOSI], gpios[GPIO_CLK],
                       gpios[GPIO_CS]} ]_vars
=============================================================================
